---------------------------- MODULE Spec2Model ----------------------------
(***************************************************************************)
(* DynoTUI: plan validation, key-template substitution, chunked batch      *)
(* execution, scan pagination, the two-phase (fetch-then-mutate) workflow, *)
(* the key handling of the table browser and the key-value codec.          *)
(*                                                                         *)
(* Strings are sequences of one-character strings, so that                 *)
(* strings.Contains, strings.ReplaceAll and strings.TrimSpace are computed *)
(* character by character.                                                 *)
(***************************************************************************)
EXTENDS Integers, Sequences, FiniteSets, TLC

VARIABLES
    \* ---- SubstituteKeys / FormatPartiQLValue applied to drawn inputs ----
    subTpl,      \* the template handed to SubstituteKeys
    subPk,       \* the partition-key value handed to SubstituteKeys
    subSk,       \* the sort-key value handed to SubstituteKeys
    subHasSK,    \* whether the table has a sort key
    subOut,      \* what SubstituteKeys returned: [stmt, err]
    subPc,       \* "call" before the call, "done" after it
    \* ---- AWS.BatchSqlQuery ----
    statements,  \* the statements handed to BatchSqlQuery
    batchI,      \* the loop variable i: statements before it are dealt with
    allItems,    \* items collected from the responses so far
    errorMsgs,   \* per-statement failure messages collected so far
    batchErr,    \* the error BatchSqlQuery returned (NoErr: none)
    batchErrMsgs, \* the per-statement messages the returned error carries
    batchPc,     \* "idle", "loop" (inside the chunk loop), "returned"
    \* ---- the store, as BatchSqlQuery sees it ----
    storeYields, \* the statements whose successful execution returns an item
    submitted,   \* history: the chunks handed to BatchExecuteStatement
    responded,   \* history: per statement answered, whether it failed
    \* ---- AWS.ScanTable and a caller that pages through a table ----
    tableSize,   \* the table holds the items 1..tableSize, in scan order
    startKey,    \* the exclusiveStartKey ScanTable was called with
    scanItems,   \* ScanTable's items
    lastKey,     \* ScanTable's lastKey: <<>> is nil, <<k>> the key of item k
    scanErr,     \* the error ScanTable returned (NoErr: none)
    scanPc,      \* "idle", "loop" (inside the page loop), "returned"
    token,       \* the caller's continuation token for the next call
    collected,   \* the items the caller has been given, call after call
    callerPc,    \* "idle", "call", "wait", "done", "error"
    \* ---- the natural-language query workflow of a session ----
    wf,               \* the workflow state
    tableHasSK,       \* Table.SK != "" for the table the session is on
    raw,              \* the planner's parsed JSON while InvokeBedrock holds it
    msg,              \* the sqlGeneratedMsg in flight: <<>> or <<[result, err]>>
    llmResult,        \* model.llmResult
    isScanWarning,    \* model.isScanWarning
    pendingPlanItems, \* model.pendingPlanItems: the discovery set
    mItems,           \* model.items: the items on display
    err,              \* model.err
    discovered,       \* history: the discovery set as the read returned it
    trace,            \* history: confirmations and store calls of the request
    \* ---- the table browser: model.Update and its commands ----
    model,       \* the model Update works on
    cmds,        \* per command, how many of its messages are awaited
    run,         \* "idle", "running", "quit", "panic"
    lastEv,      \* history: the last message Update handled, the view and
                 \* the number of items before it, and the key of the
                 \* delete it issued
    \* ---- the key-value codec ----
    native,       \* the native value handed to PutItem
    encoded,      \* the AttributeValue it was marshalled to
    decoded,      \* what unmarshalAttributeValue made of the stored value
    codecPc,      \* "idle", "put", "stored", "scan", "done"
    respItems,    \* resp.Items of a scan
    pageI,        \* how many of them the loop has dealt with
    decodedItems, \* ScanTable's items, as positions in resp.Items
    lenientItems  \* the same items through unmarshalItem

subVars == <<subTpl, subPk, subSk, subHasSK, subOut, subPc>>
batchVars == <<statements, batchI, allItems, errorMsgs, batchErr,
               batchErrMsgs, batchPc,
               storeYields, submitted, responded>>

scanVars == <<tableSize, startKey, scanItems, lastKey, scanErr, scanPc,
              token, collected, callerPc>>

wfVars == <<wf, tableHasSK, raw, msg, llmResult, isScanWarning,
            pendingPlanItems, mItems, err, discovered, trace>>

updVars == <<model, cmds, run, lastEv>>

codecVars == <<native, encoded, decoded, codecPc, respItems, pageI,
               decodedItems, lenientItems>>

vars == <<subVars, batchVars, scanVars, wfVars, updVars, codecVars>>

----------------------------------------------------------------------------
(* Bounds of the model *)

\* longest key string drawn as a partition-key or sort-key value
MaxLen == 2

\* most items a scan of the browser returns, and most the browser holds
MaxRows == 2

\* largest key value of an item of the browser
MaxRowKey == 1

\* most items in the list when the message of a save arrives
MaxSaved == 4

\* most entries of a map and most elements of a list of a native value
MaxElems == 2

\* deepest nesting of a native value
MaxDepth == 2

\* most items in the answer to a scan that is decoded
MaxPage == 2

\* most commands awaited at once
MaxInFlight == 2

\* longest statement list handed to BatchSqlQuery on its own
MaxStatements == 57

\* largest table scanned
MaxTable == 2500

\* most statements in a planner result
MaxStmts == 3

\* most items a plan's read returns
MaxDiscovered == 2

\* the number of items after which the store may cut a page short of the
\* requested Limit (its 1 MB page size)
StorePage == 400

----------------------------------------------------------------------------
(* Strings *)

\* the characters key strings are drawn from: a letter and the single quote
KeyChars == {"a", "'"}

Strings(chars, n) == UNION {[1..k -> chars] : k \in 0..n}

\* strings.HasPrefix
HasPrefix(s, p) == Len(s) >= Len(p) /\ SubSeq(s, 1, Len(p)) = p

\* strings.Contains
Contains(s, sub) ==
    \E k \in 1..(Len(s) - Len(sub) + 1) : SubSeq(s, k, k + Len(sub) - 1) = sub

\* strings.Replace(s, old, new, 1): the first occurrence only
ReplaceFirst(s, old, new) ==
    LET at == {i \in 1..Len(s) : HasPrefix(SubSeq(s, i, Len(s)), old)}
    IN  IF at = {} THEN s
        ELSE LET i == CHOOSE x \in at : \A y \in at : x <= y
             IN  SubSeq(s, 1, i - 1) \o new
                    \o SubSeq(s, i + Len(old), Len(s))

\* strings.ReplaceAll for a non-empty old: the non-overlapping occurrences of
\* old, found from left to right, are replaced by new
RECURSIVE ReplaceAll(_, _, _)
ReplaceAll(s, old, new) ==
    IF s = <<>> THEN <<>>
    ELSE IF HasPrefix(s, old)
         THEN new \o ReplaceAll(SubSeq(s, Len(old) + 1, Len(s)), old, new)
         ELSE <<Head(s)>> \o ReplaceAll(Tail(s), old, new)

\* the literal placeholders of a per-item template
PK == <<"{", "{", "P", "K", "}", "}">>
SK == <<"{", "{", "S", "K", "}", "}">>

DigitChars == <<"0", "1", "2", "3", "4", "5", "6", "7", "8", "9">>

\* strconv.FormatInt(n, 10) / strconv.Itoa(n)
RECURSIVE FormatNat(_)
FormatNat(n) ==
    IF n < 10 THEN <<DigitChars[n + 1]>>
    ELSE FormatNat(n \div 10) \o <<DigitChars[(n % 10) + 1]>>

FormatInt(n) == IF n < 0 THEN <<"-">> \o FormatNat(-n) ELSE FormatNat(n)

----------------------------------------------------------------------------
(* Native values (Go's any, as an item attribute holds it) *)

\* t is the dynamic type; s the text of a string, or the fraction digits of
\* a float64; n the integer (part) of a number, or 1/0 for a bool
StringV(s)        == [t |-> "string",  s |-> s,    n |-> 0]
Float64V(n, frac) == [t |-> "float64", s |-> frac, n |-> n]
IntV(n)           == [t |-> "int",     s |-> <<>>, n |-> n]
Int64V(n)         == [t |-> "int64",   s |-> <<>>, n |-> n]
BoolV(b)          == [t |-> "bool",    s |-> <<>>, n |-> IF b THEN 1 ELSE 0]
NilV              == [t |-> "nil",     s |-> <<>>, n |-> 0]
MapV              == [t |-> "map",     s |-> <<>>, n |-> 0]
ListV             == [t |-> "list",    s |-> <<>>, n |-> 0]

NoErr == "nil"

\* FormatPartiQLValue with the quote doubling left out
FormatPartiQLValueNoEscape(v) ==
    CASE v.t = "string"  -> [out |-> <<"'">> \o v.s \o <<"'">>, err |-> NoErr]
      [] v.t = "float64" ->
            [out |-> IF v.s = <<>> THEN FormatInt(v.n)
                     ELSE FormatInt(v.n) \o <<".">> \o v.s,
             err |-> NoErr]
      [] v.t \in {"int", "int64"} -> [out |-> FormatInt(v.n), err |-> NoErr]
      [] v.t = "bool" ->
            [out |-> IF v.n = 1 THEN <<"t", "r", "u", "e">>
                     ELSE <<"f", "a", "l", "s", "e">>,
             err |-> NoErr]
      [] OTHER -> [out |-> <<>>, err |-> "unsupported key type"]

\* FormatPartiQLValue with a default case that formats instead of failing
FormatPartiQLValueAnyType(v) ==
    CASE v.t = "string" ->
            [out |-> <<"'">> \o ReplaceAll(v.s, <<"'">>, <<"'", "'">>) \o <<"'">>,
             err |-> NoErr]
      [] v.t = "float64" ->
            [out |-> IF v.s = <<>> THEN FormatInt(v.n)
                     ELSE FormatInt(v.n) \o <<".">> \o v.s,
             err |-> NoErr]
      [] v.t \in {"int", "int64"} -> [out |-> FormatInt(v.n), err |-> NoErr]
      [] v.t = "bool" ->
            [out |-> IF v.n = 1 THEN <<"t", "r", "u", "e">>
                     ELSE <<"f", "a", "l", "s", "e">>,
             err |-> NoErr]
      [] OTHER -> [out |-> <<"N", "U", "L", "L">>, err |-> NoErr]

\* FormatPartiQLValue(v any) (string, error)
FormatPartiQLValue(v) ==
    CASE v.t = "string" ->
            [out |-> <<"'">> \o ReplaceAll(v.s, <<"'">>, <<"'", "'">>) \o <<"'">>,
             err |-> NoErr]
      [] v.t = "float64" ->
            \* integer-like: FormatInt(int64(t)); else FormatFloat(t, 'f', -1, 64)
            [out |-> IF v.s = <<>> THEN FormatInt(v.n)
                     ELSE FormatInt(v.n) \o <<".">> \o v.s,
             err |-> NoErr]
      [] v.t \in {"int", "int64"} -> [out |-> FormatInt(v.n), err |-> NoErr]
      [] v.t = "bool" ->
            [out |-> IF v.n = 1 THEN <<"t", "r", "u", "e">>
                     ELSE <<"f", "a", "l", "s", "e">>,
             err |-> NoErr]
      [] OTHER -> [out |-> <<>>, err |-> "unsupported key type"]

----------------------------------------------------------------------------
(* Key-template substitution *)

\* SubstituteKeys as the older snapshot has it: no placeholder checks
SubstituteKeysUnchecked(tpl, pkVal, skVal, hasSK) ==
    LET pk == FormatPartiQLValue(pkVal)
        sk == FormatPartiQLValue(skVal)
        out1 == ReplaceAll(tpl, PK, pk.out)
    IN  IF pk.err # NoErr THEN [stmt |-> <<>>, err |-> "format PK"]
        ELSE IF ~hasSK THEN [stmt |-> out1, err |-> NoErr]
        ELSE IF sk.err # NoErr THEN [stmt |-> <<>>, err |-> "format SK"]
        ELSE [stmt |-> ReplaceAll(out1, SK, sk.out), err |-> NoErr]

\* SubstituteKeys that goes on after a sort-key value failed to format
SubstituteKeysIgnoreSKErr(tpl, pkVal, skVal, hasSK) ==
    LET pk == FormatPartiQLValue(pkVal)
        sk == FormatPartiQLValue(skVal)
        out1 == ReplaceAll(tpl, PK, pk.out)
    IN  IF ~Contains(tpl, PK) THEN [stmt |-> <<>>, err |-> "template missing PK"]
        ELSE IF pk.err # NoErr THEN [stmt |-> <<>>, err |-> "format PK"]
        ELSE IF ~hasSK THEN [stmt |-> out1, err |-> NoErr]
        ELSE IF ~Contains(tpl, SK)
             THEN [stmt |-> <<>>, err |-> "template missing SK"]
        ELSE [stmt |-> ReplaceAll(out1, SK, sk.out), err |-> NoErr]

\* SubstituteKeys(tpl string, pkVal any, skVal any, hasSK bool) (string, error)
SubstituteKeys(tpl, pkVal, skVal, hasSK) ==
    LET pk == FormatPartiQLValue(pkVal)
        sk == FormatPartiQLValue(skVal)
        out1 == ReplaceAll(tpl, PK, pk.out)
    IN  IF ~Contains(tpl, PK) THEN [stmt |-> <<>>, err |-> "template missing PK"]
        ELSE IF pk.err # NoErr THEN [stmt |-> <<>>, err |-> "format PK"]
        ELSE IF ~hasSK THEN [stmt |-> out1, err |-> NoErr]
        ELSE IF ~Contains(tpl, SK)
             THEN [stmt |-> <<>>, err |-> "template missing SK"]
        ELSE IF sk.err # NoErr THEN [stmt |-> <<>>, err |-> "format SK"]
        ELSE [stmt |-> ReplaceAll(out1, SK, sk.out), err |-> NoErr]

\* per-item templates a planner may return: with and without the key
\* placeholders, with a repeated placeholder, with quotes of their own, and
\* with near misses of a placeholder
Templates ==
    { <<"D", "=">> \o PK,
      <<"D", "=">> \o PK \o <<"&">> \o SK,
      PK \o SK,
      SK \o <<"&">> \o PK \o <<"&">> \o PK,
      <<"D", "=">> \o SK,
      <<"D">>,
      <<>>,
      <<"'", "a", "'", "=">> \o PK \o <<"'">> \o SK,
      <<"{", "P", "K", "}">> \o SK,
      <<"{", "{", "P", "K", "}">> }

\* key values an item read from the store may hold, or lack (nil)
KeyStrings == Strings(KeyChars, MaxLen)
KeyValues ==
    {StringV(s) : s \in KeyStrings}
        \cup {Float64V(42, <<>>), Float64V(-7, <<>>), Float64V(2, <<"5">>),
              IntV(10), Int64V(0), BoolV(TRUE), BoolV(FALSE), NilV, MapV, ListV}

NoOut == [stmt |-> <<>>, err |-> NoErr]

\* SubstituteKeys is not being exercised on its own
SubstIdle ==
    /\ subTpl = <<>>
    /\ subPk = NilV
    /\ subSk = NilV
    /\ subHasSK = FALSE
    /\ subOut = NoOut
    /\ subPc = "idle"

SubstInit ==
    /\ subTpl \in Templates
    /\ subPk \in KeyValues
    /\ subSk \in KeyValues
    /\ subHasSK \in BOOLEAN
    /\ subOut = NoOut
    /\ subPc = "call"

\* one call of SubstituteKeys on the drawn inputs
CallSubstituteKeys ==
    /\ subPc = "call"
    /\ subOut' = SubstituteKeys(subTpl, subPk, subSk, subHasSK)
    /\ subPc' = "done"
    /\ UNCHANGED <<subTpl, subPk, subSk, subHasSK>>

----------------------------------------------------------------------------
(* AWS.BatchSqlQuery: chunked BatchExecuteStatement *)

\* chunkSize := 25
chunkSize == 25

\* end := i + chunkSize, one short: a chunk of 24 that skips a statement
ChunkEndOffByOne(i, n) ==
    IF i + chunkSize - 1 > n THEN n ELSE i + chunkSize - 1

\* end := i + chunkSize; if end > len(statements) { end = len(statements) }
ChunkEnd(i, n) == IF i + chunkSize > n THEN n ELSE i + chunkSize

\* chunk := statements[i:end]
Chunk(stmts, i, end) == SubSeq(stmts, i + 1, end)

\* a response of BatchExecuteStatement for one statement: an error, or a
\* success with an item (<<item>>) or without one (<<>>, Item == nil)
Response(failed, item) == [error |-> failed, item |-> item]

\* what the store answers for a chunk whose statements at the positions in
\* fails fail: one response per statement, in the statements' order; a
\* successful statement of storeYields returns the item it names
StoreResponses(chunk, fails, yields) ==
    [j \in 1..Len(chunk) |->
        Response(j \in fails,
                 IF j \notin fails /\ chunk[j] \in yields
                 THEN <<chunk[j]>> ELSE <<>>)]

\* the failure patterns the store is drawn from for a chunk: none, the
\* first statement, the last statement, or both
FailPatterns(chunk) ==
    IF chunk = <<>> THEN {{}} ELSE SUBSET {1, Len(chunk)}

\* the response loop stopping at the first failed statement
RECURSIVE ProcessResponsesBreak(_, _, _, _, _)
ProcessResponsesBreak(i, responses, j, items, msgs) ==
    IF j > Len(responses) THEN [items |-> items, msgs |-> msgs]
    ELSE IF responses[j].error
         THEN [items |-> items, msgs |-> Append(msgs, i + j)]
         ELSE ProcessResponsesBreak(i, responses, j + 1,
                                    items \o responses[j].item, msgs)

\* for j, resp := range result.Responses { ... }: a failed statement adds
\* the message "Statement <i+j+1> failed" (j from 0; here j from 1) and the
\* loop goes on; a success with an item adds the item
RECURSIVE ProcessResponses(_, _, _, _, _)
ProcessResponses(i, responses, j, items, msgs) ==
    IF j > Len(responses) THEN [items |-> items, msgs |-> msgs]
    ELSE IF responses[j].error
         THEN ProcessResponses(i, responses, j + 1, items, Append(msgs, i + j))
         ELSE ProcessResponses(i, responses, j + 1,
                               items \o responses[j].item, msgs)

\* a final return that reports success whatever was collected
BatchErrorNone(msgs) == [err |-> NoErr, msgs |-> <<>>]

\* the error of the final return: with messages collected, "Batch execution
\* encountered <len> errors" followed by the messages; without, nil
BatchError(msgs) ==
    IF Len(msgs) > 0
    THEN [err |-> "Batch execution encountered errors", msgs |-> msgs]
    ELSE [err |-> NoErr, msgs |-> <<>>]

\* BatchSqlQuery is not running
BatchIdle ==
    /\ statements = <<>>
    /\ batchI = 0
    /\ allItems = <<>>
    /\ errorMsgs = <<>>
    /\ batchErr = NoErr
    /\ batchErrMsgs = <<>>
    /\ batchPc = "idle"
    /\ storeYields = {}
    /\ submitted = <<>>
    /\ responded = <<>>

\* BatchSqlQuery called on its own with statements 1..n
BatchInit ==
    /\ \E n \in 0..MaxStatements : statements = [k \in 1..n |-> k]
    /\ batchI = 0
    /\ allItems = <<>>
    /\ errorMsgs = <<>>
    /\ batchErr = NoErr
    /\ batchErrMsgs = <<>>
    /\ batchPc = "loop"
    /\ \E ys \in {{}, 1..MaxStatements, {k \in 1..MaxStatements : k % 2 = 1}} :
          storeYields = ys
    /\ submitted = <<>>
    /\ responded = <<>>

\* one pass of the chunk loop whose BatchExecuteStatement call succeeds:
\* the chunk is submitted and its responses are processed
BatchChunk ==
    /\ batchPc = "loop"
    /\ batchI < Len(statements)
    /\ LET end == ChunkEnd(batchI, Len(statements))
           chunk == Chunk(statements, batchI, end)
       IN  \E fails \in FailPatterns(chunk) :
             LET responses == StoreResponses(chunk, fails, storeYields)
                 got == ProcessResponses(batchI, responses, 1, allItems, errorMsgs)
             IN  /\ submitted' = Append(submitted, chunk)
                 /\ responded' = responded \o [j \in 1..Len(chunk) |-> j \in fails]
                 /\ allItems' = got.items
                 /\ errorMsgs' = got.msgs
                 /\ batchI' = batchI + chunkSize
    /\ UNCHANGED <<statements, batchErr, batchErrMsgs, batchPc, storeYields>>

\* one pass of the chunk loop whose BatchExecuteStatement call fails as a
\* whole: return allItems, "batch execution failed at chunk i-end"
BatchChunkCallFails ==
    /\ batchPc = "loop"
    /\ batchI < Len(statements)
    /\ LET end == ChunkEnd(batchI, Len(statements))
       IN  submitted' = Append(submitted, Chunk(statements, batchI, end))
    /\ batchErr' = "batch execution failed"
    /\ batchErrMsgs' = <<>>
    /\ batchPc' = "returned"
    /\ UNCHANGED <<statements, batchI, allItems, errorMsgs, storeYields, responded>>

\* the loop returning only after it submitted a chunk
BatchReturnAfterAChunk ==
    /\ batchPc = "loop"
    /\ batchI >= Len(statements)
    /\ batchI > 0
    /\ batchErr' = BatchError(errorMsgs).err
    /\ batchErrMsgs' = BatchError(errorMsgs).msgs
    /\ batchPc' = "returned"
    /\ UNCHANGED <<statements, batchI, allItems, errorMsgs, storeYields,
                   submitted, responded>>

\* the loop is over: return allItems, with "Batch execution encountered n
\* errors" when a statement failed
BatchReturn ==
    /\ batchPc = "loop"
    /\ batchI >= Len(statements)
    /\ batchErr' = BatchError(errorMsgs).err
    /\ batchErrMsgs' = BatchError(errorMsgs).msgs
    /\ batchPc' = "returned"
    /\ UNCHANGED <<statements, batchI, allItems, errorMsgs, storeYields,
                   submitted, responded>>

BatchSqlQuery == BatchChunk \/ BatchChunkCallFails \/ BatchReturn

----------------------------------------------------------------------------
(* AWS.ScanTable: up to 1000 items per call, resumable by key *)

\* the 1000 of "Limit: aws.Int32(1000 - int32(len(items)))" and of
\* "len(items) >= 1000"
scanCap == 1000

NilKey == <<>>

\* ExclusiveStartKey: startKey, the key the call was given, on every page
PageStartKeyStuck(start, last) == start

\* ExclusiveStartKey: lastKey
PageStartKey(start, last) == last

\* Limit: 1000 - len(items)
ScanLimit(items) == scanCap - Len(items)

\* the position a key stands for: nil is before the first item
KeyPos(key) == IF key = NilKey THEN 0 ELSE key[1]

Min(a, b) == IF a < b THEN a ELSE b

\* the pages Dynamo.Scan may answer a request with: the items after the
\* exclusive start key, up to Limit of them or cut at the store's page size,
\* and a LastEvaluatedKey: the key of the last item of the page when items
\* remain after it (and possibly when the Limit was reached on the very last
\* item), nil when the scan reached the end of the table
ScanPages(n, key, limit) ==
    LET from == KeyPos(key)
        avail == n - from
    IN  { [items |-> [k \in 1..m |-> from + k], last |-> lk] :
            <<m, lk>> \in
              { <<mm, ll>> \in {Min(limit, avail), Min(StorePage, Min(limit, avail))}
                               \X {NilKey, <<from + Min(limit, avail)>>,
                                   <<from + Min(StorePage, Min(limit, avail))>>} :
                  IF from + mm < n THEN ll = <<from + mm>>
                  ELSE ll = NilKey \/ (mm = limit /\ mm > 0 /\ ll = <<from + mm>>) } }

\* neither ScanTable nor a caller is running
ScanIdle ==
    /\ tableSize = 0
    /\ startKey = NilKey
    /\ scanItems = <<>>
    /\ lastKey = NilKey
    /\ scanErr = NoErr
    /\ scanPc = "idle"
    /\ token = NilKey
    /\ collected = <<>>
    /\ callerPc = "idle"

\* the table sizes scanned: around the cap, a multiple of it, and the largest
TableSizes == {0, 1, StorePage, StorePage + 1, scanCap - 1, scanCap,
               scanCap + 1, scanCap + StorePage, 2 * scanCap - 1, 2 * scanCap,
               2 * scanCap + 1, MaxTable - 1, MaxTable}

\* a caller about to page through a table from the start
ScanInit ==
    /\ tableSize \in TableSizes
    /\ startKey = NilKey
    /\ scanItems = <<>>
    /\ lastKey = NilKey
    /\ scanErr = NoErr
    /\ scanPc = "idle"
    /\ token = NilKey
    /\ collected = <<>>
    /\ callerPc = "call"

\* scanTable: the caller calls ScanTable with its token;
\* var items []map[string]interface{}; lastKey = startKey
CallScanTable ==
    /\ callerPc = "call"
    /\ startKey' = token
    /\ scanItems' = <<>>
    /\ lastKey' = token
    /\ scanErr' = NoErr
    /\ scanPc' = "loop"
    /\ callerPc' = "wait"
    /\ UNCHANGED <<tableSize, token, collected>>

\* one pass of ScanTable's loop whose Dynamo.Scan call succeeds: the page's
\* items are appended, lastKey becomes the page's LastEvaluatedKey, and the
\* loop ends with 1000 items or a nil lastKey
ScanPage ==
    /\ scanPc = "loop"
    /\ \E page \in ScanPages(tableSize, PageStartKey(startKey, lastKey),
                             ScanLimit(scanItems)) :
          /\ scanItems' = scanItems \o page.items
          /\ lastKey' = page.last
          /\ scanPc' = IF Len(scanItems') >= scanCap \/ page.last = NilKey
                       THEN "returned" ELSE "loop"
    /\ UNCHANGED <<tableSize, startKey, scanErr, token, collected, callerPc>>

\* ScanTable returning the items of the pages before the failed one
ScanPageFailsKeepsItems ==
    /\ scanPc = "loop"
    /\ scanErr' = "scan failed"
    /\ scanPc' = "returned"
    /\ UNCHANGED <<tableSize, startKey, scanItems, lastKey, token, collected,
                   callerPc>>

\* one pass of ScanTable's loop whose Dynamo.Scan call fails:
\* return nil, nil, "scan failed"
ScanPageFails ==
    /\ scanPc = "loop"
    /\ scanItems' = <<>>
    /\ lastKey' = NilKey
    /\ scanErr' = "scan failed"
    /\ scanPc' = "returned"
    /\ UNCHANGED <<tableSize, startKey, token, collected, callerPc>>

\* scanTable: ScanTable returned; on an error the caller stops (errMsg), else
\* it takes the items and the next key, and calls again while the key is
\* not nil
CallerTakes ==
    /\ callerPc = "wait"
    /\ scanPc = "returned"
    /\ IF scanErr # NoErr
       THEN /\ callerPc' = "error"
            /\ UNCHANGED <<token, collected>>
       ELSE /\ collected' = collected \o scanItems
            /\ token' = lastKey
            /\ callerPc' = IF lastKey = NilKey THEN "done" ELSE "call"
    /\ scanPc' = "idle"
    /\ UNCHANGED <<tableSize, startKey, scanItems, lastKey, scanErr>>

----------------------------------------------------------------------------
(* The planner's result and InvokeBedrock's validation *)

\* a nil pointer is <<>>, a pointer to x is <<x>>
Nil == <<>>
Ptr(x) == <<x>>

Whitespace == {" ", "\t", "\n"}

\* strings.TrimSpace
RECURSIVE TrimLeft(_)
TrimLeft(s) ==
    IF s # <<>> /\ Head(s) \in Whitespace THEN TrimLeft(Tail(s)) ELSE s

RECURSIVE TrimRight(_)
TrimRight(s) ==
    IF s # <<>> /\ s[Len(s)] \in Whitespace
    THEN TrimRight(SubSeq(s, 1, Len(s) - 1)) ELSE s

TrimSpace(s) == TrimRight(TrimLeft(s))

\* type LLMResult struct { Mode; Statements; Plan *PlanBlock }
LLMResult(mode, stmts, plan) ==
    [Mode |-> mode, Statements |-> stmts, Plan |-> plan]

\* LLMResult{}
EmptyLLMResult == LLMResult("", <<>>, Nil)

\* type PlanBlock struct { Operation; Read; Write *WriteBlock; Safety }
PlanBlock(op, scan, write, safety) ==
    [Operation |-> op, Read |-> [RequiresScan |-> scan], Write |-> write,
     Safety |-> safety]

\* type WriteBlock struct { Action; PerItem.PartiqlTemplate }
WriteBlock(action, tpl) == [Action |-> action, PartiqlTemplate |-> tpl]

\* type SafetyBlock struct { NeedsConfirmation; Reason }
SafetyBlock(needs, reason) == [NeedsConfirmation |-> needs, Reason |-> reason]

\* the statement texts a planner result is drawn from: empty, blank, a
\* statement with space around it, and a second statement
StmtStrings == {<<>>, <<" ">>, <<" ", "S">>, <<"T">>}

\* the write templates a planner result is drawn from: with {{PK}}, with
\* both key placeholders, with none, and with both and a third placeholder
PlanTemplates ==
    { <<"D", "=">> \o PK, <<"D", "=">> \o PK \o <<"&">> \o SK, <<"D">>,
      <<"D", "=">> \o PK \o <<"&">> \o SK \o <<"{", "{", "X", "}", "}">> }

WriteBlocks ==
    {Nil} \cup {Ptr(WriteBlock(a, t)) : a \in {"delete", "insert"},
                                        t \in PlanTemplates}

SafetyBlocks == {SafetyBlock(TRUE, "full_table_scan"), SafetyBlock(FALSE, "none")}

PlanBlocks ==
    {Nil} \cup {Ptr(PlanBlock(op, scan, w, sf)) :
                  op \in {"select", "scan_then_write", "drop"},
                  scan \in BOOLEAN, w \in WriteBlocks, sf \in SafetyBlocks}

\* what json.Unmarshal may give InvokeBedrock
RawResults ==
    {LLMResult(m, st, p) :
        m \in {"sql", "plan", "refusal"},
        st \in UNION {[1..k -> StmtStrings] : k \in 0..MaxStmts},
        p \in PlanBlocks}

NotBlank(st) == TrimSpace(st) # <<>>

\* the filter keeping each statement's trimmed text
CleanStatementsTrimmed(stmts) ==
    IF Len(stmts) > 0
    THEN [k \in 1..Len(SelectSeq(stmts, NotBlank)) |->
            TrimSpace(SelectSeq(stmts, NotBlank)[k])]
    ELSE stmts

\* "Filter empty statements to avoid DynamoDB ValidationException"
CleanStatements(stmts) ==
    IF Len(stmts) > 0 THEN SelectSeq(stmts, NotBlank) ELSE stmts

\* the validations returning the result they reject along with the error
ValidateKeepsResult(result) ==
    IF result.Mode = "sql" /\ Len(result.Statements) = 0
    THEN [result |-> result, err |-> "mode=sql but no statements returned"]
    ELSE IF result.Mode = "plan" /\ result.Plan = Nil
    THEN [result |-> result, err |-> "mode=plan but plan is null"]
    ELSE IF /\ result.Plan # Nil
            /\ result.Plan[1].Operation = "scan_then_write"
            /\ result.Plan[1].Write = Nil
    THEN [result |-> result, err |-> "scan_then_write requires write block"]
    ELSE [result |-> result, err |-> NoErr]

\* the validations, on a result whose statements were cleaned
Validate(result) ==
    IF result.Mode = "sql" /\ Len(result.Statements) = 0
    THEN [result |-> EmptyLLMResult, err |-> "mode=sql but no statements returned"]
    ELSE IF result.Mode = "plan" /\ result.Plan = Nil
    THEN [result |-> EmptyLLMResult, err |-> "mode=plan but plan is null"]
    ELSE IF /\ result.Plan # Nil
            /\ result.Plan[1].Operation = "scan_then_write"
            /\ result.Plan[1].Write = Nil
    THEN [result |-> EmptyLLMResult, err |-> "scan_then_write requires write block"]
    ELSE [result |-> result, err |-> NoErr]

\* InvokeBedrock validating the statements as parsed and cleaning them after
InvokeBedrockCleanAfter(rawResult) ==
    LET v == Validate(rawResult)
    IN  IF v.err # NoErr THEN v
        ELSE [result |-> [rawResult EXCEPT
                            !.Statements = CleanStatements(rawResult.Statements)],
              err |-> NoErr]

\* InvokeBedrock without "scan_then_write requires write block"
InvokeBedrockNoWriteCheck(rawResult) ==
    LET result == [rawResult EXCEPT
                     !.Statements = CleanStatements(rawResult.Statements)]
    IN  IF result.Mode = "sql" /\ Len(result.Statements) = 0
        THEN [result |-> EmptyLLMResult,
              err |-> "mode=sql but no statements returned"]
        ELSE IF result.Mode = "plan" /\ result.Plan = Nil
        THEN [result |-> EmptyLLMResult, err |-> "mode=plan but plan is null"]
        ELSE [result |-> result, err |-> NoErr]

\* InvokeBedrock from the parsed JSON on: clean the statements, validate,
\* return (result, nil) or (LLMResult{}, error)
InvokeBedrock(rawResult) ==
    Validate([rawResult EXCEPT !.Statements = CleanStatements(rawResult.Statements)])

----------------------------------------------------------------------------
(* The natural-language query workflow: plan, confirm, read, confirm, write *)

\* an item of the discovery set: the values under the table's partition-key
\* and sort-key attributes (NilV: the item has no such attribute)
Item(pk, sk) == [pk |-> pk, sk |-> sk]

\* the items a plan's read is drawn from: keys that format, a quote in a
\* key, a missing partition key, a sort key of a type with no PartiQL form
DiscoveryItems ==
    { Item(StringV(<<"a">>), StringV(<<"'">>)),
      Item(NilV, StringV(<<"a">>)),
      Item(StringV(<<"a">>), MapV) }

DiscoverySets == UNION {[1..k -> DiscoveryItems] : k \in 0..MaxDiscovered}

\* the item lists on display that are told apart: none, and one item
ShownSets == {<<>>, <<Item(StringV(<<"a">>), StringV(<<"'">>))>>}

NoMsg == <<>>

\* no natural-language request is under way
WfIdle ==
    /\ wf = "Idle"
    /\ tableHasSK = FALSE
    /\ raw = Nil
    /\ msg = NoMsg
    /\ llmResult = EmptyLLMResult
    /\ isScanWarning = FALSE
    /\ pendingPlanItems = <<>>
    /\ mItems = <<>>
    /\ err = NoErr
    /\ discovered = <<>>
    /\ trace = <<>>

\* a session on a table, with or without a sort key, before any request
WfInit ==
    /\ wf = "Idle"
    /\ tableHasSK \in BOOLEAN
    /\ raw = Nil
    /\ msg = NoMsg
    /\ llmResult = EmptyLLMResult
    /\ isScanWarning = FALSE
    /\ pendingPlanItems = <<>>
    /\ mItems \in ShownSets
    /\ err = NoErr
    /\ discovered = <<>>
    /\ trace = <<>>

\* generateSQLCmd is running for a request
PlannerInit ==
    /\ wf = "Planning"
    /\ tableHasSK \in BOOLEAN
    /\ raw = Nil
    /\ msg = NoMsg
    /\ llmResult = EmptyLLMResult
    /\ isScanWarning = FALSE
    /\ pendingPlanItems = <<>>
    /\ mItems = <<>>
    /\ err = NoErr
    /\ discovered = <<>>
    /\ trace = <<>>

\* a key press in ReadConfirmPending that reads whatever the key
AfterReadConfirmAnyKey(confirmed) == "Reading"

\* where a key press in ReadConfirmPending leads
AfterReadConfirm(confirmed) == IF confirmed THEN "Reading" ELSE "Idle"

\* a key press in SqlConfirmPending that runs the statements whatever the key
AfterSqlConfirmAnyKey(confirmed) == "Executing"

\* where a key press in SqlConfirmPending leads
AfterSqlConfirm(confirmed) == IF confirmed THEN "Executing" ELSE "Idle"

\* a successful read that asks for the write confirmation whenever the
\* plan has a write block
AfterReadWriteIfAny(plan) ==
    IF plan.Write # Nil THEN "WriteConfirmPending" ELSE "Idle"

\* where a successful read leads
AfterRead(plan) ==
    IF plan.Operation = "scan_then_write" THEN "WriteConfirmPending" ELSE "Idle"

\* a key press in WriteConfirmPending that writes whatever the key
AfterWriteConfirmAnyKey(confirmed, allOk) ==
    IF allOk THEN "Writing" ELSE "Error"

\* where a key press in WriteConfirmPending leads; allOk: substitution
\* succeeded for every item of the discovery set
AfterWriteConfirm(confirmed, allOk) ==
    IF ~confirmed THEN "Idle"
    ELSE IF allOk THEN "Writing" ELSE "Error"

\* a discovery set that survives a decline at the write confirmation
PendingKeptOnDecline(confirmed, its) == IF confirmed THEN <<>> ELSE its

\* a discovery set that survives the submission of its write
PendingKeptOnSubmit(confirmed, its) == IF confirmed THEN its ELSE <<>>

\* the discovery set after a key press in WriteConfirmPending: consumed by
\* the submission on confirm, discarded on decline
PendingAfterWriteConfirm(confirmed, its) == <<>>

\* one statement per item of the discovery set, in the items' order
GenerateStatements(tpl, its, hasSK) ==
    [k \in 1..Len(its) |-> SubstituteKeys(tpl, its[k].pk, its[k].sk, hasSK)]

\* the operator submits a natural-language request: generateSQLCmd starts
AskPlanner ==
    /\ wf = "Idle"
    /\ wf' = "Planning"
    /\ raw' = Nil
    /\ msg' = NoMsg
    /\ llmResult' = EmptyLLMResult
    /\ isScanWarning' = FALSE
    /\ pendingPlanItems' = <<>>
    /\ err' = NoErr
    /\ discovered' = <<>>
    /\ trace' = <<>>
    /\ statements' = <<>>
    /\ batchI' = 0
    /\ allItems' = <<>>
    /\ errorMsgs' = <<>>
    /\ batchErr' = NoErr
    /\ batchErrMsgs' = <<>>
    /\ batchPc' = "idle"
    /\ storeYields' = {}
    /\ submitted' = <<>>
    /\ responded' = <<>>
    /\ UNCHANGED <<tableHasSK, mItems>>

\* InvokeBedrock has the model's answer parsed
PlannerAnswers ==
    /\ wf = "Planning" /\ raw = Nil /\ msg = NoMsg
    /\ \E r \in RawResults : raw' = Ptr(r)
    /\ UNCHANGED <<wf, tableHasSK, msg, llmResult, isScanWarning,
                   pendingPlanItems, mItems, err, discovered, trace>>
    /\ UNCHANGED batchVars

\* InvokeBedrock cleans and validates the answer; generateSQLCmd sends
\* sqlGeneratedMsg{result, err}
InvokeBedrockReturns ==
    /\ wf = "Planning" /\ raw # Nil /\ msg = NoMsg
    /\ msg' = Ptr(InvokeBedrock(raw[1]))
    /\ UNCHANGED <<wf, tableHasSK, raw, llmResult, isScanWarning,
                   pendingPlanItems, mItems, err, discovered, trace>>
    /\ UNCHANGED batchVars

\* InvokeBedrock fails before it has an answer to validate: the model call
\* fails, or the answer is empty or not JSON
InvokeBedrockFails ==
    /\ wf = "Planning" /\ raw = Nil /\ msg = NoMsg
    /\ \E e \in {"invoke model", "LLM JSON parse failed"} :
          msg' = Ptr([result |-> EmptyLLMResult, err |-> e])
    /\ UNCHANGED <<wf, tableHasSK, raw, llmResult, isScanWarning,
                   pendingPlanItems, mItems, err, discovered, trace>>
    /\ UNCHANGED batchVars

\* the session takes sqlGeneratedMsg: an error goes to the error display, a
\* statement result to its confirmation, a plan to the read confirmation
\* with its scan warning, a refusal back to the table
HandleSqlGenerated ==
    /\ wf = "Planning" /\ msg # NoMsg
    /\ LET m == msg[1]
       IN  IF m.err # NoErr
           THEN /\ wf' = "Error"
                /\ err' = m.err
                /\ UNCHANGED <<llmResult, isScanWarning>>
           ELSE /\ llmResult' = m.result
                /\ err' = NoErr
                /\ wf' = CASE m.result.Mode = "sql" -> "SqlConfirmPending"
                           [] m.result.Mode = "plan" -> "ReadConfirmPending"
                           [] OTHER -> "Idle"
                /\ isScanWarning' = (/\ m.result.Mode = "plan"
                                     /\ m.result.Plan[1].Read.RequiresScan)
    /\ msg' = NoMsg
    /\ raw' = Nil
    /\ UNCHANGED <<tableHasSK, pendingPlanItems, mItems, discovered, trace>>
    /\ UNCHANGED batchVars

\* a key press on the statement confirmation: run the statements, or cancel
SqlConfirmKey ==
    /\ wf = "SqlConfirmPending"
    /\ \E confirmed \in BOOLEAN :
          /\ wf' = AfterSqlConfirm(confirmed)
          /\ trace' = trace \o (IF confirmed THEN <<"confirmSql", "sqlCall">>
                                 ELSE <<"declineSql">>)
    /\ UNCHANGED <<tableHasSK, raw, msg, llmResult, isScanWarning,
                   pendingPlanItems, mItems, err, discovered>>
    /\ UNCHANGED batchVars

\* the statements of a mode=sql result have run against the store
ExecuteReturns ==
    /\ wf = "Executing"
    /\ \E ok \in BOOLEAN :
          /\ wf' = IF ok THEN "Idle" ELSE "Error"
          /\ err' = IF ok THEN NoErr ELSE "PartiQL execution failed"
          /\ trace' = Append(trace, IF ok THEN "executeOk" ELSE "executeFailed")
    /\ UNCHANGED <<tableHasSK, raw, msg, llmResult, isScanWarning,
                   pendingPlanItems, mItems, discovered>>
    /\ UNCHANGED batchVars

\* a key press on the read confirmation: run the plan's read, or cancel
ReadConfirmKey ==
    /\ wf = "ReadConfirmPending"
    /\ \E confirmed \in BOOLEAN :
          /\ wf' = AfterReadConfirm(confirmed)
          /\ trace' = trace \o (IF confirmed THEN <<"confirmRead", "readCall">>
                                 ELSE <<"declineRead">>)
    /\ UNCHANGED <<tableHasSK, raw, msg, llmResult, isScanWarning,
                   pendingPlanItems, mItems, err, discovered>>
    /\ UNCHANGED batchVars

\* the plan's read succeeds: a scan_then_write plan keeps the items as its
\* discovery set and asks for the write confirmation, any other plan shows
\* them (the lists shown are drawn from ShownSets)
ReadSucceeds ==
    /\ wf = "Reading"
    /\ \E its \in (IF AfterRead(llmResult.Plan[1]) = "WriteConfirmPending"
                   THEN DiscoverySets ELSE ShownSets) :
          LET to == AfterRead(llmResult.Plan[1])
          IN  /\ wf' = to
              /\ discovered' = its
              /\ pendingPlanItems' = IF to = "WriteConfirmPending" THEN its ELSE <<>>
              /\ mItems' = IF to = "WriteConfirmPending" THEN mItems ELSE its
    /\ trace' = Append(trace, "readOk")
    /\ UNCHANGED <<tableHasSK, raw, msg, llmResult, isScanWarning, err>>
    /\ UNCHANGED batchVars

\* the plan's read fails at the store
ReadFails ==
    /\ wf = "Reading"
    /\ wf' = "Error"
    /\ err' = "PartiQL execution failed"
    /\ pendingPlanItems' = <<>>
    /\ trace' = Append(trace, "readFailed")
    /\ UNCHANGED <<tableHasSK, raw, msg, llmResult, isScanWarning, mItems,
                   discovered>>
    /\ UNCHANGED batchVars

\* the plan's read was a scan: the session takes the message of scanTable,
\* errMsg when ScanTable returned an error, else the items it returned
ReadTakesScan ==
    /\ wf = "Reading"
    /\ callerPc = "wait"
    /\ scanPc = "returned"
    /\ IF scanErr # NoErr
       THEN /\ wf' = "Error"
            /\ err' = scanErr
            /\ pendingPlanItems' = <<>>
            /\ trace' = Append(trace, "readFailed")
            /\ callerPc' = "error"
            /\ UNCHANGED <<mItems, discovered>>
       ELSE LET to == AfterRead(llmResult.Plan[1])
            IN  /\ wf' = to
                /\ discovered' = scanItems
                /\ pendingPlanItems' =
                      IF to = "WriteConfirmPending" THEN scanItems ELSE <<>>
                /\ mItems' = IF to = "WriteConfirmPending" THEN mItems
                             ELSE scanItems
                /\ trace' = Append(trace, "readOk")
                /\ callerPc' = "done"
                /\ err' = err
    /\ scanPc' = "idle"
    /\ UNCHANGED <<tableHasSK, raw, msg, llmResult, isScanWarning>>
    /\ UNCHANGED <<tableSize, startKey, scanItems, lastKey, scanErr, token,
                   collected>>

\* a key press on the write confirmation: on confirm, one statement per
\* item by SubstituteKeys; if every substitution succeeds BatchSqlQuery
\* starts on them, and if one fails nothing is submitted; on decline the
\* discovery set is dropped
WriteConfirmKey ==
    /\ wf = "WriteConfirmPending"
    /\ \E confirmed \in BOOLEAN :
          LET outs == GenerateStatements(
                          llmResult.Plan[1].Write[1].PartiqlTemplate,
                          pendingPlanItems, tableHasSK)
              allOk == \A k \in 1..Len(outs) : outs[k].err = NoErr
              to == AfterWriteConfirm(confirmed, allOk)
          IN  /\ wf' = to
              /\ trace' = Append(trace, IF confirmed THEN "confirmWrite"
                                        ELSE "declineWrite")
              /\ statements' = IF to = "Writing"
                               THEN [k \in 1..Len(outs) |-> outs[k].stmt]
                               ELSE <<>>
              /\ batchPc' = IF to = "Writing" THEN "loop" ELSE "idle"
              /\ err' = IF to = "Error" THEN "failed to generate statement"
                        ELSE NoErr
              /\ pendingPlanItems' =
                    PendingAfterWriteConfirm(confirmed, pendingPlanItems)
    /\ UNCHANGED <<tableHasSK, raw, msg, llmResult, isScanWarning, mItems,
                   discovered>>
    /\ UNCHANGED <<batchI, allItems, errorMsgs, batchErr, batchErrMsgs,
                   storeYields,
                   submitted, responded>>

\* BatchSqlQuery has returned: a call that failed as a whole goes to the
\* error display, anything else back to the table with the outcome
WriteDone ==
    /\ wf = "Writing"
    /\ batchPc = "returned"
    /\ wf' = IF batchErr = "batch execution failed" THEN "Error" ELSE "Idle"
    /\ err' = batchErr
    /\ batchPc' = "idle"
    /\ UNCHANGED <<tableHasSK, raw, msg, llmResult, isScanWarning,
                   pendingPlanItems, mItems, discovered, trace>>
    /\ UNCHANGED <<statements, batchI, allItems, errorMsgs, batchErr,
                   batchErrMsgs,
                   storeYields, submitted, responded>>

\* any key on the error display goes back to the table: m.err = nil
DismissError ==
    /\ wf = "Error"
    /\ wf' = "Idle"
    /\ err' = NoErr
    /\ UNCHANGED <<tableHasSK, raw, msg, llmResult, isScanWarning,
                   pendingPlanItems, mItems, discovered, trace>>
    /\ UNCHANGED batchVars

----------------------------------------------------------------------------
(* model.Update: the table browser, its confirmation views and its         *)
(* commands.  Go indexes count from 0; sequence positions from 1.  The     *)
(* widgets (spinner, help, text input, viewport) and the status line only  *)
(* affect what is drawn and are left out.                                  *)

\* the keys pressed: every key Update names, and "x" for any other key
Keys ==
    {"y", "Y", "enter", "n", "N", "esc", "ctrl+c", "/", "q",
     "l", "right", "h", "left", "?", "up", "k", "down", "j",
     "ctrl+d", "ctrl+u", " ", "e", "E", "a", "A", "s", "S", "d", "D", "x"}

\* the tables a session may find; of a Table, whether it has a sort key
TableLists ==
    {<<>>, <<[hasSK |-> FALSE]>>, <<[hasSK |-> TRUE], [hasSK |-> FALSE]>>}

\* an Item of the browser: its attributes pk and sk, which are the key
\* attributes of a table with a sort key, and a further attribute
Rows ==
    {[pk |-> pk, sk |-> 1, name |-> "n"] : pk \in 1 .. MaxRowKey}
    \cup {[pk |-> 1, sk |-> 2, name |-> "n"]}

RowLists ==
    UNION {[1 .. n -> Rows] : n \in 0 .. MaxRows}

InRange(i, s) == i >= 0 /\ i < Len(s)

\* the commands a remote call stands behind
RemoteCmds == {"loadTables", "scanTable", "saveItemCmd", "deleteItemCmd"}

\* the commands whose message arrives later
AsyncCmds == RemoteCmds \cup {"openEditor(edit)", "openEditor(new)"}

NoCmd == "nil"

\* what Update returns: the model and a command; "panic" stands for the
\* run-time panic of an index out of range
Ret(m, c) == [m |-> m, cmd |-> c]

initialModel ==
    [view |-> "viewLoading", loading |-> TRUE, tables |-> <<>>,
     items |-> <<>>, modifiedItems |-> {}, tableCursor |-> 0,
     itemCursor |-> 0, inputMode |-> FALSE, activePane |-> 0,
     err |-> NoErr]

\* case tablesLoadedMsg
UpdateTablesLoaded(m, ts) ==
    Ret([m EXCEPT !.loading = FALSE, !.view = "viewTableList",
                  !.tables = ts], NoCmd)

\* case itemsLoadedMsg
UpdateItemsLoaded(m, its) ==
    Ret([m EXCEPT !.loading = FALSE, !.view = "viewTableItems",
                  !.items = its, !.modifiedItems = {},
                  !.itemCursor = 0, !.activePane = 0], NoCmd)

\* case editorFinishedMsg
UpdateEditorFinished(m, e, hasItem, newItem, isNew) ==
    IF e # NoErr
    THEN Ret([m EXCEPT !.err = e, !.view = "viewError"], NoCmd)
    ELSE IF ~hasItem THEN Ret(m, NoCmd)
    ELSE IF isNew
    THEN Ret([m EXCEPT !.items = Append(@, newItem),
                       !.itemCursor = Len(m.items),
                       !.modifiedItems = @ \cup {Len(m.items)}], NoCmd)
    ELSE IF ~InRange(m.itemCursor, m.items) THEN Ret(m, "panic")
    ELSE Ret([m EXCEPT !.items[m.itemCursor + 1] = newItem,
                       !.modifiedItems = @ \cup {m.itemCursor}], NoCmd)

\* case itemSavedMsg dropping the duplicates but leaving the flags at the
\* indexes they had
UpdateItemSavedFlagsNotMoved(m, e) ==
    IF e # NoErr
    THEN Ret([m EXCEPT !.loading = FALSE, !.err = e, !.view = "viewError"],
             NoCmd)
    ELSE IF ~InRange(m.itemCursor, m.items)
            \/ ~InRange(m.tableCursor, m.tables)
    THEN Ret([m EXCEPT !.loading = FALSE], "panic")
    ELSE LET savedItem == m.items[m.itemCursor + 1]
             hasSK == m.tables[m.tableCursor + 1].hasSK
             match(it) == it.pk = savedItem.pk
                          /\ (hasSK => it.sk = savedItem.sk)
             kept == {i \in 0 .. Len(m.items) - 1 :
                        i = m.itemCursor \/ ~match(m.items[i + 1])}
             dstIdx(i) == Cardinality({j \in kept : j < i})
             srcIdx(d) == CHOOSE i \in kept : dstIdx(i) = d
         IN  Ret([m EXCEPT
                    !.loading = FALSE,
                    !.items = [d \in 1 .. Cardinality(kept) |->
                                  m.items[srcIdx(d - 1) + 1]],
                    !.modifiedItems = @ \ {m.itemCursor},
                    !.itemCursor = dstIdx(m.itemCursor),
                    !.view = "viewTableItems"], NoCmd)

\* case itemSavedMsg: on success the saved item stays, every other item
\* with its key is dropped, and indexes move down accordingly
UpdateItemSaved(m, e) ==
    IF e # NoErr
    THEN Ret([m EXCEPT !.loading = FALSE, !.err = e, !.view = "viewError"],
             NoCmd)
    ELSE IF ~InRange(m.itemCursor, m.items)
            \/ ~InRange(m.tableCursor, m.tables)
    THEN Ret([m EXCEPT !.loading = FALSE], "panic")
    ELSE LET savedItem == m.items[m.itemCursor + 1]
             hasSK == m.tables[m.tableCursor + 1].hasSK
             match(it) == it.pk = savedItem.pk
                          /\ (hasSK => it.sk = savedItem.sk)
             kept == {i \in 0 .. Len(m.items) - 1 :
                        i = m.itemCursor \/ ~match(m.items[i + 1])}
             dstIdx(i) == Cardinality({j \in kept : j < i})
             srcIdx(d) == CHOOSE i \in kept : dstIdx(i) = d
         IN  Ret([m EXCEPT
                    !.loading = FALSE,
                    !.items = [d \in 1 .. Cardinality(kept) |->
                                  m.items[srcIdx(d - 1) + 1]],
                    !.modifiedItems =
                        {dstIdx(i) :
                            i \in (m.modifiedItems \cap kept)
                                  \ {m.itemCursor}},
                    !.itemCursor = dstIdx(m.itemCursor),
                    !.view = "viewTableItems"], NoCmd)

\* case itemDeletedMsg
UpdateItemDeleted(m, e) ==
    IF e # NoErr
    THEN Ret([m EXCEPT !.loading = FALSE, !.err = e, !.view = "viewError"],
             NoCmd)
    ELSE IF Len(m.items) = 0
    THEN Ret([m EXCEPT !.loading = FALSE, !.view = "viewTableItems"], NoCmd)
    ELSE IF ~InRange(m.itemCursor, m.items)
    THEN Ret([m EXCEPT !.loading = FALSE], "panic")
    ELSE LET its == SubSeq(m.items, 1, m.itemCursor)
                    \o SubSeq(m.items, m.itemCursor + 2, Len(m.items))
             cur == IF m.itemCursor >= Len(its) /\ m.itemCursor > 0
                    THEN m.itemCursor - 1 ELSE m.itemCursor
         IN  Ret([m EXCEPT
                    !.loading = FALSE,
                    !.items = its,
                    !.itemCursor = cur,
                    !.modifiedItems =
                        {k \in @ : k < cur}
                        \cup {k - 1 : k \in {j \in @ : j > cur}},
                    !.view = "viewTableItems"], NoCmd)

\* case errMsg
UpdateErrMsg(m, e) ==
    Ret([m EXCEPT !.err = e, !.loading = FALSE, !.view = "viewError"], NoCmd)

\* case tea.KeyMsg, m.view == viewError: every key goes back
ErrorViewKeyFallsThrough(m) ==
    Ret(m, IF m.tables # <<>> THEN "scanTable" ELSE NoCmd)

ErrorViewKey(m) ==
    Ret([m EXCEPT !.view = "viewTableList", !.err = NoErr], NoCmd)

\* case tea.KeyMsg, m.view == viewConfirmation
ConfirmationKeyAnyKeySaves(m, key) ==
    IF key \in {"n", "N", "esc"}
    THEN Ret([m EXCEPT !.view = "viewTableItems"], NoCmd)
    ELSE Ret([m EXCEPT !.loading = TRUE, !.view = "viewLoading"],
             "saveItemCmd")

ConfirmationKey(m, key) ==
    IF key \in {"y", "Y", "enter"}
    THEN IF ~InRange(m.tableCursor, m.tables)
            \/ ~InRange(m.itemCursor, m.items)
         THEN Ret([m EXCEPT !.loading = TRUE, !.view = "viewLoading"], "panic")
         ELSE Ret([m EXCEPT !.loading = TRUE, !.view = "viewLoading"],
                  "saveItemCmd")
    ELSE IF key \in {"n", "N", "esc"}
    THEN Ret([m EXCEPT !.view = "viewTableItems"], NoCmd)
    ELSE Ret(m, NoCmd)

\* case tea.KeyMsg, m.view == viewDeleteConfirmation
DeleteConfirmationKey(m, key) ==
    IF key \in {"y", "Y", "enter"}
    THEN IF ~InRange(m.tableCursor, m.tables)
            \/ ~InRange(m.itemCursor, m.items)
         THEN Ret([m EXCEPT !.loading = TRUE, !.view = "viewLoading"], "panic")
         ELSE Ret([m EXCEPT !.loading = TRUE, !.view = "viewLoading"],
                  "deleteItemCmd")
    ELSE IF key \in {"n", "N", "esc"}
    THEN Ret([m EXCEPT !.view = "viewTableItems"], NoCmd)
    ELSE Ret(m, NoCmd)

Max(a, b) == IF a > b THEN a ELSE b

\* the cursor keys: up, down, ctrl+d and ctrl+u move m.tableCursor in the
\* table list and m.itemCursor in the left pane of the item view
pageAmount == 10

CursorKey(m, key) ==
    LET lastT == Len(m.tables) - 1
        lastI == Len(m.items) - 1
        t == m.tableCursor
        i == m.itemCursor
    IN  IF m.view = "viewTableList"
        THEN [m EXCEPT !.tableCursor =
                CASE key \in {"up", "k"} -> IF t > 0 THEN t - 1 ELSE t
                  [] key \in {"down", "j"} -> IF t < lastT THEN t + 1 ELSE t
                  [] key = "ctrl+d" -> Min(t + pageAmount, lastT)
                  [] key = "ctrl+u" -> Max(t - pageAmount, 0)]
        ELSE IF m.view = "viewTableItems" /\ m.activePane = 0
        THEN [m EXCEPT !.itemCursor =
                CASE key \in {"up", "k"} -> IF i > 0 THEN i - 1 ELSE i
                  [] key \in {"down", "j"} -> IF i < lastI THEN i + 1 ELSE i
                  [] key = "ctrl+d" -> Min(i + pageAmount, lastI)
                  [] key = "ctrl+u" -> Max(i - pageAmount, 0)]
        ELSE m

\* case tea.KeyMsg, the switch on the key outside the input mode
NormalKey(m, key) ==
    LET inItems == m.view = "viewTableItems"
    IN  CASE key = "q" ->
                IF inItems
                THEN Ret([m EXCEPT !.view = "viewTableList",
                                   !.items = <<>>, !.activePane = 0], NoCmd)
                ELSE Ret(m, "tea.Quit")
          [] key \in {"l", "right"} ->
                Ret(IF inItems THEN [m EXCEPT !.activePane = 1] ELSE m, NoCmd)
          [] key \in {"h", "left"} ->
                Ret(IF inItems THEN [m EXCEPT !.activePane = 0] ELSE m, NoCmd)
          [] key = "?" -> Ret(m, NoCmd)
          [] key \in {"up", "k", "down", "j", "ctrl+d", "ctrl+u"} ->
                Ret(CursorKey(m, key), NoCmd)
          [] key \in {"enter", " "} ->
                IF m.view = "viewTableList" /\ key = "enter"
                THEN IF Len(m.tables) > 0
                     THEN IF ~InRange(m.tableCursor, m.tables)
                          THEN Ret([m EXCEPT !.loading = TRUE,
                                               !.view = "viewLoading"], "panic")
                          ELSE Ret([m EXCEPT !.loading = TRUE,
                                             !.view = "viewLoading"],
                                   "scanTable")
                     ELSE Ret(m, NoCmd)
                ELSE Ret(IF inItems THEN [m EXCEPT !.activePane = 1] ELSE m,
                         NoCmd)
          [] key \in {"e", "E"} ->
                IF inItems /\ Len(m.items) > 0
                THEN IF ~InRange(m.itemCursor, m.items) THEN Ret(m, "panic")
                     ELSE Ret(m, "openEditor(edit)")
                ELSE Ret(m, NoCmd)
          [] key \in {"a", "A"} ->
                Ret(m, IF inItems THEN "openEditor(new)" ELSE NoCmd)
          [] key \in {"s", "S"} ->
                Ret(IF inItems /\ Len(m.items) > 0
                    THEN [m EXCEPT !.view = "viewConfirmation"] ELSE m, NoCmd)
          [] key \in {"d", "D"} ->
                Ret(IF inItems /\ Len(m.items) > 0
                    THEN [m EXCEPT !.view = "viewDeleteConfirmation"] ELSE m,
                    NoCmd)
          [] OTHER -> Ret(m, NoCmd)

\* case tea.KeyMsg
UpdateKey(m, key) ==
    IF m.view = "viewError" THEN ErrorViewKey(m)
    ELSE IF m.view = "viewConfirmation" THEN ConfirmationKey(m, key)
    ELSE IF m.view = "viewDeleteConfirmation"
    THEN DeleteConfirmationKey(m, key)
    ELSE IF ~m.inputMode /\ key = "ctrl+c" THEN Ret(m, "tea.Quit")
    ELSE IF key = "/" /\ ~m.inputMode
    THEN Ret([m EXCEPT !.inputMode = TRUE], "textinput.Blink")
    ELSE IF m.inputMode
    THEN Ret([m EXCEPT !.inputMode =
                        IF key \in {"enter", "esc"} THEN FALSE ELSE @],
             "textinput.Blink")
    ELSE NormalKey(m, key)

\* the commands awaited once Update has returned cmd
Issue(cs, cmd) ==
    IF cmd \in AsyncCmds THEN [cs EXCEPT ![cmd] = @ + 1] ELSE cs

\* how many remote calls are awaited
Outstanding(cs) ==
    cs["loadTables"] + cs["scanTable"] + cs["saveItemCmd"]
    + cs["deleteItemCmd"]

UpdIdle ==
    /\ model = initialModel
    /\ cmds = [c \in AsyncCmds |-> 0]
    /\ run = "idle"
    /\ lastEv = [kind |-> "none", view |-> "", key |-> <<>>, n |-> 0]

\* initialModel, and Init's loadTables on its way
UpdInit ==
    /\ model = initialModel
    /\ cmds = Issue([c \in AsyncCmds |-> 0], "loadTables")
    /\ run = "running"
    /\ lastEv = [kind |-> "none", view |-> "", key |-> <<>>, n |-> 0]

\* deleteItemCmd sending the whole item as the key
deleteKeyMapWholeItem(item, pkName, skName) == item

\* deleteItemCmd, "Construct Key Map": the item's attribute named pkName
\* and, with a sort key, the one named skName, each if the item has it
deleteKeyMap(item, pkName, skName) ==
    [a \in ({pkName} \cap DOMAIN item)
            \cup (IF skName # "" THEN {skName} \cap DOMAIN item ELSE {})
        |-> item[a]]

\* Update has returned r on a key or a message (kind); the key map of a
\* deleteItemCmd it returned is kept with the event
Updated(r, kind) ==
    /\ model' = r.m
    /\ run' = CASE r.cmd = "tea.Quit" -> "quit"
                [] r.cmd = "panic" -> "panic"
                [] OTHER -> "running"
    /\ lastEv' = [kind |-> kind, view |-> model.view, n |-> Len(model.items),
                  key |-> IF r.cmd = "deleteItemCmd"
                          THEN LET t == model.tables[model.tableCursor + 1]
                               IN  deleteKeyMap(
                                       model.items[model.itemCursor + 1],
                                       "pk", IF t.hasSK THEN "sk" ELSE "")
                          ELSE <<>>]

\* the operator presses a key
KeyPress ==
    /\ run = "running"
    /\ \E key \in Keys :
        LET r == UpdateKey(model, key)
            cs == Issue(cmds, r.cmd)
        IN  /\ Outstanding(cs) + cs["openEditor(edit)"]
                 + cs["openEditor(new)"] <= MaxInFlight
            /\ cmds' = Issue(cmds, r.cmd)
            /\ Updated(r, "key")

\* a message of a finished command reaches Update
LoadTablesReturns ==
    /\ run = "running"
    /\ cmds["loadTables"] > 0
    /\ cmds' = [cmds EXCEPT !["loadTables"] = @ - 1]
    /\ \E ts \in TableLists :
        Updated(UpdateTablesLoaded(model, ts),
                "msg")

ScanTableReturns ==
    /\ run = "running"
    /\ cmds["scanTable"] > 0
    /\ cmds' = [cmds EXCEPT !["scanTable"] = @ - 1]
    /\ \E its \in RowLists :
        Updated(UpdateItemsLoaded(model, its),
                "msg")

RemoteFails ==
    /\ run = "running"
    /\ \E c \in {"loadTables", "scanTable"} :
        /\ cmds[c] > 0
        /\ cmds' = [cmds EXCEPT ![c] = @ - 1]
        /\ Updated(UpdateErrMsg(model, "remote call failed"),
                   "msg")

SaveItemReturns ==
    /\ run = "running"
    /\ cmds["saveItemCmd"] > 0
    /\ cmds' = [cmds EXCEPT !["saveItemCmd"] = @ - 1]
    /\ \E e \in {NoErr, "remote call failed"} :
        Updated(UpdateItemSaved(model, e), "msg")

DeleteItemReturns ==
    /\ run = "running"
    /\ cmds["deleteItemCmd"] > 0
    /\ cmds' = [cmds EXCEPT !["deleteItemCmd"] = @ - 1]
    /\ \E e \in {NoErr, "remote call failed"} :
        Updated(UpdateItemDeleted(model, e),
                "msg")

EditorReturns ==
    /\ run = "running"
    /\ \E c \in {"openEditor(edit)", "openEditor(new)"} :
        /\ cmds[c] > 0
        /\ cmds' = [cmds EXCEPT ![c] = @ - 1]
        /\ \E e \in {NoErr, "editor failed"}, hasItem \in BOOLEAN,
              newItem \in Rows :
            /\ (e # NoErr => ~hasItem)
            /\ (~hasItem => newItem = [pk |-> 1, sk |-> 1, name |-> "n"])
            /\ (hasItem /\ c = "openEditor(new)" =>
                    Len(model.items) < MaxRows)
            /\ Updated(UpdateEditorFinished(model, e, hasItem, newItem,
                                            c = "openEditor(new)"),
                       "msg")

----------------------------------------------------------------------------
(* The key-value codec: attributevalue.MarshalMap on the way to the store  *)
(* (AWS.PutItem), unmarshalAttributeValue and unmarshalItem on the way     *)
(* back, and the decoding loop of AWS.ScanTable.                           *)
(*                                                                         *)
(* A native value is [t, s, kids]: t its Go type, s its text (of a slice:  *)
(* "nil" for a nil slice), kids the entries [k, v] of a map in key order   *)
(* or the elements of a slice (k = "").  An AttributeValue has the same    *)
(* shape with t its tag; "?" is a tag the program does not know.           *)

Val(t, s, kids) == [t |-> t, s |-> s, kids |-> kids]

Scalars ==
    {Val("string", "a", <<>>), Val("string", "42", <<>>),
     Val("bool", "true", <<>>), Val("nil", "", <<>>)}

\* the maps (with the keys a, b, c in this order) and the slices whose
\* values are drawn from S
ContainersOf(S) ==
    UNION {{Val("map", "", [i \in 1 .. n |->
                              [k |-> <<"a", "b", "c">>[i], v |-> f[i]]])
              : f \in [1 .. n -> S]} : n \in 0 .. MaxElems}
    \cup UNION {{Val("slice", "", [i \in 1 .. n |-> [k |-> "", v |-> f[i]]])
              : f \in [1 .. n -> S]} : n \in 0 .. MaxElems}

\* the native values down to MaxDepth levels of nesting
RECURSIVE NativesTo(_)
NativesTo(d) ==
    IF d = 0 THEN Scalars
    ELSE Scalars \cup ContainersOf(NativesTo(d - 1))

\* attributevalue.Marshal on an interface{} value: a nil interface, a nil
\* map and a nil slice become NULL
RECURSIVE Marshal(_)
Marshal(x) ==
    CASE x.t = "string" -> Val("S", x.s, <<>>)
      [] x.t = "bool" -> Val("BOOL", x.s, <<>>)
      [] x.t = "nil" -> Val("NULL", "", <<>>)
      [] x.t = "map" ->
            Val("M", "", [i \in 1 .. Len(x.kids) |->
                            [k |-> x.kids[i].k, v |-> Marshal(x.kids[i].v)]])
      [] x.t = "slice" ->
            IF x.s = "nil" THEN Val("NULL", "", <<>>)
            ELSE Val("L", "", [i \in 1 .. Len(x.kids) |->
                            [k |-> "", v |-> Marshal(x.kids[i].v)]])

\* unmarshalAttributeValue(av types.AttributeValue) interface{}
RECURSIVE unmarshalAttributeValue(_)
unmarshalAttributeValue(av) ==
    CASE av.t = "S" -> Val("string", av.s, <<>>)
      [] av.t = "N" -> Val("string", av.s, <<>>)
      [] av.t = "BOOL" -> Val("bool", av.s, <<>>)
      [] av.t = "M" ->
            Val("map", "", [i \in 1 .. Len(av.kids) |->
                    [k |-> av.kids[i].k,
                     v |-> unmarshalAttributeValue(av.kids[i].v)]])
      [] av.t = "L" ->
            Val("slice", IF av.kids = <<>> THEN "nil" ELSE "",
                [i \in 1 .. Len(av.kids) |->
                    [k |-> "", v |-> unmarshalAttributeValue(av.kids[i].v)]])
      [] av.t = "NULL" -> Val("nil", "", <<>>)
      [] OTHER -> Val("nil", "", <<>>)

\* unmarshalItem(item map[string]types.AttributeValue)
unmarshalItem(item) ==
    [i \in 1 .. Len(item) |->
        [k |-> item[i].k, v |-> unmarshalAttributeValue(item[i].v)]]

\* whether attributevalue.UnmarshalMap knows every tag of the value
RECURSIVE KnownTags(_)
KnownTags(av) ==
    /\ av.t \in {"S", "N", "BOOL", "NULL", "M", "L", "B"}
    /\ \A i \in 1 .. Len(av.kids) : KnownTags(av.kids[i].v)

\* attributevalue.UnmarshalMap(item, &unmarshalledItem): its error
UnmarshalMapErr(item) ==
    IF \A i \in 1 .. Len(item) : KnownTags(item[i].v)
    THEN NoErr ELSE "unsupported AttributeValue type"

\* the values of the attribute x of the items a scan is answered with: a
\* string, a number, a binary value, a value with a tag the program does
\* not know, and a list and a map that hold one
AttrValues ==
    {Val("S", "a", <<>>), Val("N", "42", <<>>), Val("B", "a", <<>>),
     Val("?", "", <<>>),
     Val("L", "", <<[k |-> "", v |-> Val("?", "", <<>>)]>>),
     Val("M", "", <<[k |-> "a", v |-> Val("?", "", <<>>)]>>)}

\* resp.Items of a scan: items with the key attribute id and the attribute x
Pages ==
    LET items == {<<[k |-> "id", v |-> Val("S", id, <<>>)],
                    [k |-> "x", v |-> x]>>
                    : id \in {"a", "b"}, x \in AttrValues}
    IN  UNION {[1 .. n -> items] : n \in 1 .. MaxPage}

NoVal == Val("", "", <<>>)

CodecIdle ==
    /\ native = NoVal /\ encoded = NoVal /\ decoded = NoVal
    /\ codecPc = "idle"
    /\ respItems = <<>> /\ pageI = 0
    /\ decodedItems = <<>> /\ lenientItems = <<>>

\* a native value to be put, or a page of items to be decoded
CodecInit ==
    /\ encoded = NoVal /\ decoded = NoVal
    /\ pageI = 0
    /\ decodedItems = <<>> /\ lenientItems = <<>>
    /\ \/ native \in NativesTo(MaxDepth) /\ respItems = <<>> /\ codecPc = "put"
       \/ native = NoVal /\ respItems \in Pages /\ codecPc = "scan"

\* AWS.PutItem marshals the value
PutItem ==
    /\ codecPc = "put"
    /\ encoded' = Marshal(native)
    /\ codecPc' = "stored"
    /\ UNCHANGED <<native, decoded, respItems, pageI, decodedItems,
                   lenientItems>>

\* the stored value is read back and decoded
ReadBack ==
    /\ codecPc = "stored"
    /\ decoded' = unmarshalAttributeValue(encoded)
    /\ codecPc' = "done"
    /\ UNCHANGED <<native, encoded, respItems, pageI, decodedItems,
                   lenientItems>>

\* one turn of the loop over resp.Items in AWS.ScanTable, and the same item
\* through unmarshalItem
DecodeItem ==
    /\ codecPc = "scan"
    /\ pageI < Len(respItems)
    /\ LET item == respItems[pageI + 1]
       IN  /\ decodedItems' =
                IF UnmarshalMapErr(item) = NoErr
                THEN Append(decodedItems, pageI + 1) ELSE decodedItems
           /\ lenientItems' = Append(lenientItems, unmarshalItem(item))
    /\ pageI' = pageI + 1
    /\ codecPc' = IF pageI + 1 = Len(respItems) THEN "done" ELSE "scan"
    /\ UNCHANGED <<native, encoded, decoded, respItems>>

----------------------------------------------------------------------------
(* Specifications *)

\* SubstituteKeys applied once to each drawn template and key values
InitSubst == SubstInit /\ BatchIdle /\ ScanIdle /\ WfIdle /\ UpdIdle /\ CodecIdle

SubstNext == CallSubstituteKeys /\ UNCHANGED <<updVars, codecVars, batchVars, scanVars, wfVars>>

SpecSubst == InitSubst /\ [][SubstNext]_vars

\* SubstituteKeys called also with key strings that are themselves the text
\* of a placeholder
InitSubstAnyKey ==
    /\ subTpl \in Templates
    /\ subPk \in KeyValues \cup {StringV(PK), StringV(SK)}
    /\ subSk \in KeyValues \cup {StringV(PK), StringV(SK)}
    /\ subHasSK \in BOOLEAN
    /\ subOut = NoOut
    /\ subPc = "call"
    /\ BatchIdle /\ ScanIdle /\ WfIdle /\ UpdIdle /\ CodecIdle

SpecSubstAnyKey == InitSubstAnyKey /\ [][SubstNext]_vars

\* BatchSqlQuery run on each drawn statement list against each store
InitBatch == BatchInit /\ SubstIdle /\ ScanIdle /\ WfIdle /\ UpdIdle /\ CodecIdle

BatchNext ==
    \/ BatchChunk /\ UNCHANGED <<updVars, codecVars, subVars, scanVars, wfVars>>
    \/ BatchChunkCallFails /\ UNCHANGED <<updVars, codecVars, subVars, scanVars, wfVars>>
    \/ BatchReturn /\ UNCHANGED <<updVars, codecVars, subVars, scanVars, wfVars>>

SpecBatch == InitBatch /\ [][BatchNext]_vars

\* a caller pages through each drawn table with ScanTable
InitScan == ScanInit /\ SubstIdle /\ BatchIdle /\ WfIdle /\ UpdIdle /\ CodecIdle

ScanNext ==
    \/ CallScanTable /\ UNCHANGED <<updVars, codecVars, subVars, batchVars, wfVars>>
    \/ ScanPage /\ UNCHANGED <<updVars, codecVars, subVars, batchVars, wfVars>>
    \/ ScanPageFails /\ UNCHANGED <<updVars, codecVars, subVars, batchVars, wfVars>>
    \/ CallerTakes /\ UNCHANGED <<updVars, codecVars, subVars, batchVars, wfVars>>

SpecScan == InitScan /\ [][ScanNext]_vars

\* generateSQLCmd on each answer the planner may give: InvokeBedrock parses,
\* cleans and validates it, and the message is sent
InitPlanner == PlannerInit /\ SubstIdle /\ BatchIdle /\ ScanIdle /\ UpdIdle /\ CodecIdle

PlannerNext ==
    \/ PlannerAnswers /\ UNCHANGED <<updVars, codecVars, subVars, scanVars>>
    \/ InvokeBedrockReturns /\ UNCHANGED <<updVars, codecVars, subVars, scanVars>>
    \/ InvokeBedrockFails /\ UNCHANGED <<updVars, codecVars, subVars, scanVars>>

SpecPlanner == InitPlanner /\ [][PlannerNext]_vars

\* the read of a confirmed plan done as one call of ScanTable: the session
\* is in Reading with a plan InvokeBedrock accepted, and each call of
\* Dynamo.Scan is recorded as it is answered
InitRead ==
    /\ wf = "Reading"
    /\ tableHasSK \in BOOLEAN
    /\ raw = Nil
    /\ msg = NoMsg
    /\ llmResult \in
          {InvokeBedrock(LLMResult("plan", <<>>, p)).result :
              p \in {q \in PlanBlocks :
                        InvokeBedrock(LLMResult("plan", <<>>, q)).err = NoErr}}
    /\ isScanWarning = llmResult.Plan[1].Read.RequiresScan
    /\ pendingPlanItems = <<>>
    /\ mItems = <<>>
    /\ err = NoErr
    /\ discovered = <<>>
    /\ trace = <<"confirmRead">>
    /\ ScanInit /\ SubstIdle /\ BatchIdle /\ UpdIdle /\ CodecIdle

ReadNext ==
    \/ /\ CallScanTable
       /\ trace' = Append(trace, "readCall")
       /\ UNCHANGED <<wf, tableHasSK, raw, msg, llmResult, isScanWarning,
                      pendingPlanItems, mItems, err, discovered>>
       /\ UNCHANGED <<updVars, codecVars, subVars, batchVars>>
    \/ /\ ScanPage
       /\ trace' = Append(trace, "pageOk")
       /\ UNCHANGED <<wf, tableHasSK, raw, msg, llmResult, isScanWarning,
                      pendingPlanItems, mItems, err, discovered>>
       /\ UNCHANGED <<updVars, codecVars, subVars, batchVars>>
    \/ /\ ScanPageFails
       /\ trace' = Append(trace, "pageFailed")
       /\ UNCHANGED <<wf, tableHasSK, raw, msg, llmResult, isScanWarning,
                      pendingPlanItems, mItems, err, discovered>>
       /\ UNCHANGED <<updVars, codecVars, subVars, batchVars>>
    \/ ReadTakesScan /\ UNCHANGED <<updVars, codecVars, subVars, batchVars>>

SpecRead == InitRead /\ [][ReadNext]_vars

\* the write step from its confirmation on: the session is in Writing and
\* BatchSqlQuery starts on the statements generated for the discovered
\* items (statement k stands for item k); every call that is awaited
\* returns, with an answer or an error
InitWrite ==
    /\ wf = "Writing"
    /\ tableHasSK = FALSE
    /\ raw = Nil
    /\ msg = NoMsg
    /\ llmResult = LLMResult("plan", <<>>,
          Ptr(PlanBlock("scan_then_write", FALSE,
                        Ptr(WriteBlock("delete", <<"D", "=">> \o PK)),
                        SafetyBlock(FALSE, "none"))))
    /\ isScanWarning = FALSE
    /\ pendingPlanItems = <<>>
    /\ mItems = <<>>
    /\ err = NoErr
    /\ trace = <<"confirmRead", "readCall", "readOk", "confirmWrite">>
    /\ BatchInit /\ SubstIdle /\ ScanIdle /\ UpdIdle /\ CodecIdle
    /\ discovered = statements

WriteNext ==
    \/ BatchChunk /\ UNCHANGED <<updVars, codecVars, subVars, scanVars, wfVars>>
    \/ BatchChunkCallFails /\ UNCHANGED <<updVars, codecVars, subVars, scanVars, wfVars>>
    \/ BatchReturn /\ UNCHANGED <<updVars, codecVars, subVars, scanVars, wfVars>>
    \/ WriteDone /\ UNCHANGED <<updVars, codecVars, subVars, scanVars>>
    \/ DismissError /\ UNCHANGED <<updVars, codecVars, subVars, scanVars>>

SpecWrite ==
    /\ InitWrite
    /\ [][WriteNext]_vars
    /\ WF_vars(BatchSqlQuery /\ UNCHANGED <<updVars, codecVars, subVars,
                                            scanVars, wfVars>>)
    /\ WF_vars(WriteDone /\ UNCHANGED <<updVars, codecVars, subVars, scanVars>>)

\* a session of the table browser: keys pressed and messages delivered
InitUpdate ==
    UpdInit /\ SubstIdle /\ BatchIdle /\ ScanIdle /\ WfIdle /\ CodecIdle

UpdateNext ==
    \/ KeyPress /\ UNCHANGED <<subVars, batchVars, scanVars, wfVars, codecVars>>
    \/ LoadTablesReturns /\ UNCHANGED <<subVars, batchVars, scanVars, wfVars, codecVars>>
    \/ ScanTableReturns /\ UNCHANGED <<subVars, batchVars, scanVars, wfVars, codecVars>>
    \/ RemoteFails /\ UNCHANGED <<subVars, batchVars, scanVars, wfVars, codecVars>>
    \/ SaveItemReturns /\ UNCHANGED <<subVars, batchVars, scanVars, wfVars, codecVars>>
    \/ DeleteItemReturns /\ UNCHANGED <<subVars, batchVars, scanVars, wfVars, codecVars>>
    \/ EditorReturns /\ UNCHANGED <<subVars, batchVars, scanVars, wfVars, codecVars>>

SpecUpdate == InitUpdate /\ [][UpdateNext]_vars

\* the message of a save arrives for a list of up to MaxSaved items, some
\* of them with the same key, with any flags and cursor; Update has just
\* returned saveItemCmd on the confirming key
InitSaved ==
    /\ \E ts \in TableLists \ {<<>>},
          its \in UNION {[1 .. n ->
                            Rows \cup {[pk |-> 2, sk |-> 1, name |-> "n"]}]
                           : n \in 1 .. MaxSaved} :
         \E tc \in 0 .. Len(ts) - 1, c \in 0 .. Len(its) - 1,
            fl \in SUBSET (0 .. Len(its) - 1) :
            /\ model = [initialModel EXCEPT
                          !.view = "viewLoading", !.tables = ts,
                          !.tableCursor = tc, !.items = its,
                          !.itemCursor = c, !.modifiedItems = fl]
            /\ lastEv = [kind |-> "key", view |-> "viewConfirmation",
                         key |-> <<>>, n |-> Len(its)]
    /\ cmds = Issue([c \in AsyncCmds |-> 0], "saveItemCmd")
    /\ run = "running"
    /\ SubstIdle /\ BatchIdle /\ ScanIdle /\ WfIdle /\ CodecIdle

SavedNext ==
    \/ SaveItemReturns /\ UNCHANGED <<subVars, batchVars, scanVars, wfVars, codecVars>>

SpecSaved == InitSaved /\ [][SavedNext]_vars

\* a value put and read back, or the answer to a scan decoded
InitCodec ==
    CodecInit /\ SubstIdle /\ BatchIdle /\ ScanIdle /\ WfIdle /\ UpdIdle

CodecNext ==
    \/ PutItem /\ UNCHANGED <<subVars, batchVars, scanVars, wfVars, updVars>>
    \/ ReadBack /\ UNCHANGED <<subVars, batchVars, scanVars, wfVars, updVars>>
    \/ DecodeItem /\ UNCHANGED <<subVars, batchVars, scanVars, wfVars, updVars>>

SpecCodec == InitCodec /\ [][CodecNext]_vars

\* a session taking natural-language requests one after another
Init == WfInit /\ SubstIdle /\ BatchIdle /\ ScanIdle /\ UpdIdle /\ CodecIdle

Next ==
    \/ AskPlanner /\ UNCHANGED <<updVars, codecVars, subVars, scanVars>>
    \/ PlannerAnswers /\ UNCHANGED <<updVars, codecVars, subVars, scanVars>>
    \/ InvokeBedrockReturns /\ UNCHANGED <<updVars, codecVars, subVars, scanVars>>
    \/ InvokeBedrockFails /\ UNCHANGED <<updVars, codecVars, subVars, scanVars>>
    \/ HandleSqlGenerated /\ UNCHANGED <<updVars, codecVars, subVars, scanVars>>
    \/ SqlConfirmKey /\ UNCHANGED <<updVars, codecVars, subVars, scanVars>>
    \/ ExecuteReturns /\ UNCHANGED <<updVars, codecVars, subVars, scanVars>>
    \/ ReadConfirmKey /\ UNCHANGED <<updVars, codecVars, subVars, scanVars>>
    \/ ReadSucceeds /\ UNCHANGED <<updVars, codecVars, subVars, scanVars>>
    \/ ReadFails /\ UNCHANGED <<updVars, codecVars, subVars, scanVars>>
    \/ WriteConfirmKey /\ UNCHANGED <<updVars, codecVars, subVars, scanVars>>
    \/ BatchChunk /\ UNCHANGED <<updVars, codecVars, subVars, scanVars, wfVars>>
    \/ BatchChunkCallFails /\ UNCHANGED <<updVars, codecVars, subVars, scanVars, wfVars>>
    \/ BatchReturn /\ UNCHANGED <<updVars, codecVars, subVars, scanVars, wfVars>>
    \/ WriteDone /\ UNCHANGED <<updVars, codecVars, subVars, scanVars>>
    \/ DismissError /\ UNCHANGED <<updVars, codecVars, subVars, scanVars>>

Spec == Init /\ [][Next]_vars

----------------------------------------------------------------------------
(* Properties of FormatPartiQLValue and SubstituteKeys *)

\* how many times character c occurs in s
RECURSIVE CountChar(_, _)
CountChar(s, c) ==
    IF s = <<>> THEN 0
    ELSE (IF Head(s) = c THEN 1 ELSE 0) + CountChar(Tail(s), c)

\* how many non-overlapping occurrences of sub, from the left, s holds
RECURSIVE CountOcc(_, _)
CountOcc(s, sub) ==
    IF Len(s) < Len(sub) THEN 0
    ELSE IF HasPrefix(s, sub)
         THEN 1 + CountOcc(SubSeq(s, Len(sub) + 1, Len(s)), sub)
         ELSE CountOcc(Tail(s), sub)

\* every single quote of x is one of two adjacent quotes
RECURSIVE PairedQuotes(_)
PairedQuotes(x) ==
    IF x = <<>> THEN TRUE
    ELSE IF Head(x) = "'"
         THEN Len(x) >= 2 /\ x[2] = "'" /\ PairedQuotes(SubSeq(x, 3, Len(x)))
         ELSE PairedQuotes(Tail(x))

\* x with each pair of quotes read back as one quote
RECURSIVE Unescape(_)
Unescape(x) ==
    IF x = <<>> THEN <<>>
    ELSE IF Head(x) = "'" /\ Len(x) >= 2
         THEN <<"'">> \o Unescape(SubSeq(x, 3, Len(x)))
         ELSE <<Head(x)>> \o Unescape(Tail(x))

\* lit is the string s as one single-quoted literal with no unescaped quote
QuotedLiteralOf(lit, s) ==
    /\ Len(lit) >= 2
    /\ lit[1] = "'" /\ lit[Len(lit)] = "'"
    /\ LET inner == SubSeq(lit, 2, Len(lit) - 1)
       IN  PairedQuotes(inner) /\ Unescape(inner) = s

\* the types FormatPartiQLValue has a case for
Formattable(v) == v.t \in {"string", "float64", "int", "int64", "bool"}

\* the quotes a formatted key value brings into a statement
QuotesOf(v) == IF v.t = "string" THEN 2 + 2 * CountChar(v.s, "'") ELSE 0

TemplateErrs == {"template missing PK", "template missing SK"}

C4_QuotesDoubled ==
    (subPc = "done" /\ subOut.err = NoErr) =>
        /\ subPk.t = "string" =>
              /\ QuotedLiteralOf(FormatPartiQLValue(subPk).out, subPk.s)
              /\ Contains(subOut.stmt, FormatPartiQLValue(subPk).out)
        /\ (subHasSK /\ subSk.t = "string") =>
              /\ QuotedLiteralOf(FormatPartiQLValue(subSk).out, subSk.s)
              /\ Contains(subOut.stmt, FormatPartiQLValue(subSk).out)
        /\ CountChar(subOut.stmt, "'") =
              CountChar(subTpl, "'")
                + CountOcc(subTpl, PK) * QuotesOf(subPk)
                + (IF subHasSK THEN CountOcc(subTpl, SK) * QuotesOf(subSk)
                   ELSE 0)

\* both key values are strings holding a quote, in a template that has
\* quotes of its own
C4_Witness ==
    /\ subPc = "done" /\ subOut.err = NoErr
    /\ subHasSK
    /\ subPk.t = "string" /\ CountChar(subPk.s, "'") >= 1
    /\ subSk.t = "string" /\ CountChar(subSk.s, "'") = MaxLen
    /\ CountChar(subTpl, "'") >= 1

----------------------------------------------------------------------------
(* Properties of BatchSqlQuery *)

\* the chunks one after another
RECURSIVE Flatten(_)
Flatten(chunks) ==
    IF chunks = <<>> THEN <<>> ELSE Head(chunks) \o Flatten(Tail(chunks))

\* BatchSqlQuery returned, and no BatchExecuteStatement call failed as a whole
ReturnedAfterAllCalls ==
    batchPc = "returned" /\ batchErr # "batch execution failed"

\* C5: the chunks handed to the store are consecutive groups of the
\* statements, in the statements' order: each holds at most 25, each but the
\* last exactly 25, and together they are a prefix of the list; once
\* BatchSqlQuery has gone through the list (no call failed as a whole) there
\* are ceil(N/25) of them and together they are the whole list, every
\* statement once (57 statements: 25, 25, 7).
C5_ChunksOf25InOrder ==
    /\ \A k \in 1..Len(submitted) :
          /\ Len(submitted[k]) <= 25
          /\ k < Len(submitted) => Len(submitted[k]) = 25
    /\ Len(Flatten(submitted)) <= Len(statements)
    /\ Flatten(submitted) = SubSeq(statements, 1, Len(Flatten(submitted)))
    /\ ReturnedAfterAllCalls =>
          /\ Len(submitted) = (Len(statements) + 24) \div 25
          /\ Flatten(submitted) = statements
    /\ (ReturnedAfterAllCalls /\ Len(statements) = 57) =>
          <<Len(submitted[1]), Len(submitted[2]), Len(submitted[3])>>
              = <<25, 25, 7>>

\* 57 statements went out as three chunks
C5_Witness ==
    /\ ReturnedAfterAllCalls
    /\ Len(statements) = 57
    /\ Len(submitted) = 3

\* the items of the statements that were answered with a success, in order
RECURSIVE ItemsOfSuccesses(_, _, _)
ItemsOfSuccesses(stmts, failed, yields) ==
    IF failed = <<>> THEN <<>>
    ELSE (IF ~Head(failed) /\ Head(stmts) \in yields THEN <<Head(stmts)>>
          ELSE <<>>)
         \o ItemsOfSuccesses(Tail(stmts), Tail(failed), yields)

\* the indexes (from 1) of the statements answered with a failure, in order
FailedIndexes(failed) ==
    LET RECURSIVE Idx(_)
        Idx(k) == IF k > Len(failed) THEN <<>>
                  ELSE (IF failed[k] THEN <<k>> ELSE <<>>) \o Idx(k + 1)
    IN  Idx(1)

----------------------------------------------------------------------------
(* Properties of ScanTable *)

----------------------------------------------------------------------------
(* Properties of the validation and of the workflow *)

\* the store calls of the request so far: the read of a plan, the run of a
\* mode=sql result, and the chunks handed to BatchExecuteStatement
IsStoreCall(e) == e \in {"readCall", "sqlCall"}
IssuedCalls == Len(SelectSeq(trace, IsStoreCall)) + Len(submitted)

\* a plan with operation=scan_then_write and no write block
WriteMissing(r) ==
    /\ r.Plan # Nil
    /\ r.Plan[1].Operation = "scan_then_write"
    /\ r.Plan[1].Write = Nil

\* C1: a planner result whose plan has operation=scan_then_write and a null
\* write block is rejected by InvokeBedrock: it returns an error and the
\* empty result, with no store call issued; the session never holds such a
\* result, and a request that ended in a validation error has issued no
\* store call, so every store call belongs to a result with no such plan.
C1_ScanThenWriteNeedsWrite ==
    /\ (raw # Nil /\ WriteMissing(raw[1])) =>
          /\ IssuedCalls = 0
          /\ msg # NoMsg =>
                msg[1].err # NoErr /\ msg[1].result = EmptyLLMResult
    /\ ~WriteMissing(llmResult)
    /\ (wf = "Error" /\ err = "scan_then_write requires write block") =>
          IssuedCalls = 0 /\ llmResult = EmptyLLMResult
    /\ IssuedCalls > 0 => llmResult # EmptyLLMResult

\* a plan-mode result with scan_then_write and no write block was rejected
\* for that, and the session shows the error with no store call issued
C1_Witness ==
    /\ wf = "Error"
    /\ err = "scan_then_write requires write block"
    /\ IssuedCalls = 0

\* e1, e2, e3 occur in the trace in this order
InOrder(e1, e2, e3) ==
    \E i, j, k \in 1..Len(trace) :
        /\ i < j /\ j < k
        /\ trace[i] = e1 /\ trace[j] = e2 /\ trace[k] = e3

\* C2: whenever statements have been handed to BatchSqlQuery or a chunk has
\* been submitted to the store, the operator has confirmed the read, then
\* the read has succeeded, then the operator has confirmed the write, in
\* this order; and the result being run is a scan_then_write plan.
C2_WriteAfterBothConfirmations ==
    (submitted # <<>> \/ batchPc # "idle" \/ wf = "Writing") =>
        /\ InOrder("confirmRead", "readOk", "confirmWrite")
        /\ llmResult.Mode = "plan"
        /\ llmResult.Plan[1].Operation = "scan_then_write"

\* a chunk has been submitted after read confirmation, read and write
\* confirmation
C2_Witness ==
    /\ submitted # <<>>
    /\ trace = <<"confirmRead", "readCall", "readOk", "confirmWrite">>

\* both key values of the item have a PartiQL form (the sort key matters
\* only on a table that has one)
KeysFormat(it) == Formattable(it.pk) /\ (tableHasSK => Formattable(it.sk))

\* the template has the placeholders the table needs
TemplateFits(tpl) == Contains(tpl, PK) /\ (tableHasSK => Contains(tpl, SK))

\* substitution fails for an item of the discovery set
SomeSubstitutionFails ==
    /\ llmResult.Plan # Nil
    /\ llmResult.Plan[1].Write # Nil
    /\ \E k \in 1..Len(discovered) :
          \/ ~KeysFormat(discovered[k])
          \/ ~TemplateFits(llmResult.Plan[1].Write[1].PartiqlTemplate)

WriteConfirmed == \E k \in 1..Len(trace) : trace[k] = "confirmWrite"

\* C8: once the write is confirmed on a discovery set with an item whose
\* substitution fails, the session is on the error display (or back on the
\* table after the error was dismissed), BatchSqlQuery was given no
\* statement and no chunk was submitted; so a submitted chunk means that
\* substitution succeeded for every item.
C8_SubstitutionFailureAbortsBatch ==
    /\ (WriteConfirmed /\ SomeSubstitutionFails) =>
          /\ wf \in {"Error", "Idle"}
          /\ wf = "Error" => err = "failed to generate statement"
          /\ statements = <<>> /\ batchPc = "idle" /\ submitted = <<>>
    /\ (WriteConfirmed /\ ~SomeSubstitutionFails /\ wf = "Writing") =>
          Len(statements) = Len(discovered)

\* two items, the first with keys that format and the second without: the
\* batch is aborted with nothing submitted
C8_Witness ==
    /\ wf = "Error"
    /\ err = "failed to generate statement"
    /\ Len(discovered) = 2
    /\ KeysFormat(discovered[1]) /\ ~KeysFormat(discovered[2])
    /\ TemplateFits(llmResult.Plan[1].Write[1].PartiqlTemplate)
    /\ submitted = <<>>

\* st has a character that is not whitespace
HasText(st) == \E k \in 1..Len(st) : st[k] \notin Whitespace

\* mode=sql with a statement left, mode=plan with a plan
ModeHasItsPart(r) ==
    /\ r.Mode = "sql" =>
          /\ Len(r.Statements) >= 1
          /\ \A k \in 1..Len(r.Statements) : HasText(r.Statements[k])
    /\ r.Mode = "plan" => r.Plan # Nil

\* C9: a result InvokeBedrock accepts has, with mode=sql, at least one
\* statement left after the empty ones were dropped (and none of those left
\* is empty or blank), and with mode=plan a plan block.
C9_AcceptedModeHasItsPart ==
    (msg # NoMsg /\ msg[1].err = NoErr) => ModeHasItsPart(msg[1].result)

\* a mode=sql result is accepted after an empty statement was dropped
C9_Witness ==
    /\ msg # NoMsg /\ msg[1].err = NoErr
    /\ msg[1].result.Mode = "sql"
    /\ Len(raw[1].Statements) = 2
    /\ Len(msg[1].result.Statements) = 1

\* C10: a result InvokeBedrock accepts has exactly one active variant: with
\* mode=sql no plan, with mode=plan no statement, with mode=refusal neither.
C10_ExactlyOneVariant ==
    (msg # NoMsg /\ msg[1].err = NoErr) =>
        LET r == msg[1].result
        IN  /\ r.Mode = "sql" => r.Plan = Nil
            /\ r.Mode = "plan" => r.Statements = <<>>
            /\ r.Mode = "refusal" => r.Statements = <<>> /\ r.Plan = Nil

----------------------------------------------------------------------------
(* Properties of the validation: the rules on the plan's content *)

\* InvokeBedrock accepted the answer it parsed
Accepted == msg # NoMsg /\ msg[1].err = NoErr

FullScanSafety == SafetyBlock(TRUE, "full_table_scan")

\* C11: a result InvokeBedrock accepts has no plan whose read requires a
\* scan unless the plan's safety block has needs_confirmation=true and
\* reason=full_table_scan.
C11_ScanNeedsSafety ==
    (Accepted /\ msg[1].result.Plan # Nil) =>
        LET plan == msg[1].result.Plan[1]
        IN  plan.Read.RequiresScan => plan.Safety = FullScanSafety

\* C13: a mode=plan result InvokeBedrock accepts has operation select or
\* scan_then_write.
C13_PlanOperationKnown ==
    (Accepted /\ msg[1].result.Mode = "plan") =>
        msg[1].result.Plan[1].Operation \in {"select", "scan_then_write"}

\* the opening of a placeholder
Open == <<"{", "{">>

\* tpl has a {{...}} placeholder other than {{PK}} and {{SK}}
HasOtherPlaceholder(tpl) ==
    Contains(ReplaceAll(ReplaceAll(tpl, PK, <<>>), SK, <<>>), Open)

\* no statement submitted to the store holds an unresolved placeholder
SubmittedResolved ==
    \A c \in 1..Len(submitted) : \A k \in 1..Len(submitted[c]) :
        ~Contains(submitted[c][k], Open)

\* C12: a result InvokeBedrock accepts has no write template with a
\* placeholder other than {{PK}} and {{SK}}, and no statement submitted to
\* the store from a plan holds an unresolved placeholder.
C12_NoOtherPlaceholder ==
    /\ (Accepted /\ msg[1].result.Plan # Nil
                 /\ msg[1].result.Plan[1].Write # Nil) =>
          ~HasOtherPlaceholder(msg[1].result.Plan[1].Write[1].PartiqlTemplate)
    /\ SubmittedResolved

\* the errors of InvokeBedrock's validations
ValidationErrs ==
    {"mode=sql but no statements returned", "mode=plan but plan is null",
     "scan_then_write requires write block"}

\* the parsed answer r fails one of the validations: mode=sql with no
\* statement that has text, mode=plan without a plan, or scan_then_write
\* without a write block
FailsValidation(r) ==
    \/ r.Mode = "sql" /\ \A k \in 1..Len(r.Statements) : ~HasText(r.Statements[k])
    \/ r.Mode = "plan" /\ r.Plan = Nil
    \/ WriteMissing(r)

\* a rejected answer reaches the caller as an error with the empty result,
\* and a session showing a validation error holds no result and has issued
\* no store call
RejectionIsEmptyAndCallFree ==
    /\ (raw # Nil /\ msg # NoMsg) =>
          (FailsValidation(raw[1]) <=> msg[1].err \in ValidationErrs)
    /\ (msg # NoMsg /\ msg[1].err # NoErr) =>
          /\ msg[1].result = EmptyLLMResult
          /\ IssuedCalls = 0
    /\ (wf = "Error" /\ err \in ValidationErrs) =>
          /\ llmResult = EmptyLLMResult
          /\ IssuedCalls = 0
          /\ statements = <<>> /\ batchPc = "idle"

\* taking a message that carries an error puts the session on the error
\* display with that error
RejectionIsSurfaced ==
    (msg # NoMsg /\ msg[1].err # NoErr /\ msg' = NoMsg) =>
        wf' = "Error" /\ err' = msg[1].err

\* C14: whenever a validation of InvokeBedrock fails, the caller receives
\* the error with the empty result (no statement and no plan), the session
\* takes it to the error display with that error, and no store call is made
\* for the request; the failure is never dropped.
C14_ValidationFailureHalts ==
    []RejectionIsEmptyAndCallFree /\ [][RejectionIsSurfaced]_vars

\* a session on the error display with a validation error, no result kept
\* and no store call issued
C14_Witness ==
    /\ wf = "Error"
    /\ err = "mode=plan but plan is null"
    /\ llmResult = EmptyLLMResult
    /\ IssuedCalls = 0

----------------------------------------------------------------------------
(* Properties of SubstituteKeys: what it returns and when it fails *)

\* tpl read from the left with every {{PK}} given as pkLit and, for a table
\* with a sort key, every {{SK}} given as skLit; all other text as it is
RECURSIVE Substituted(_, _, _, _)
Substituted(tpl, pkLit, skLit, hasSK) ==
    IF tpl = <<>> THEN <<>>
    ELSE IF HasPrefix(tpl, PK)
         THEN pkLit \o Substituted(SubSeq(tpl, Len(PK) + 1, Len(tpl)),
                                   pkLit, skLit, hasSK)
    ELSE IF hasSK /\ HasPrefix(tpl, SK)
         THEN skLit \o Substituted(SubSeq(tpl, Len(SK) + 1, Len(tpl)),
                                   pkLit, skLit, hasSK)
    ELSE <<Head(tpl)>> \o Substituted(Tail(tpl), pkLit, skLit, hasSK)

NotAScalar(v) == v.t \in {"nil", "map", "list"}

\* C16: SubstituteKeys returns an error and no statement when the
\* partition-key value is missing, null, a map or a list, and, for a table
\* with a sort key, when the sort-key value is; with a template that has the
\* placeholders the error is the formatting error of that key.
C16_MissingOrCompositeKeyFails ==
    (subPc = "done"
       /\ (NotAScalar(subPk) \/ (subHasSK /\ NotAScalar(subSk)))) =>
        /\ subOut.err # NoErr
        /\ subOut.stmt = <<>>
        /\ (Contains(subTpl, PK) /\ Contains(subTpl, SK)) =>
              subOut.err = IF NotAScalar(subPk) THEN "format PK" ELSE "format SK"

\* a table with a sort key, a template with both placeholders, a
\* partition key that formats and an item with no sort-key value
C16_Witness ==
    /\ subPc = "done"
    /\ subHasSK
    /\ Contains(subTpl, PK) /\ Contains(subTpl, SK)
    /\ subPk.t = "string"
    /\ subSk = NilV
    /\ subOut = [stmt |-> <<>>, err |-> "format SK"]

----------------------------------------------------------------------------
(* Properties of what BatchSqlQuery returns *)

\* how many statements were answered with a failure
FailedCount == Cardinality({k \in 1..Len(responded) : responded[k]})

\* C17: once every chunk of the N statements has been submitted and
\* answered, what BatchSqlQuery returns holds N per-statement results: the
\* successes and the failures it carries add up to N.
C17_OneResultPerStatement ==
    ReturnedAfterAllCalls =>
        Len(allItems) + Len(batchErrMsgs) = Len(statements)

\* C18: when a chunk call fails as a whole, what BatchSqlQuery returns keeps
\* what the earlier chunks recorded: the items of their successful
\* statements and the messages of their failed statements.
C18_CallFailureKeepsEarlierOutcomes ==
    (batchPc = "returned" /\ batchErr = "batch execution failed") =>
        /\ allItems = ItemsOfSuccesses(statements, responded, storeYields)
        /\ batchErrMsgs = FailedIndexes(responded)

----------------------------------------------------------------------------
(* Properties of the confirmations *)

LastEvent == IF trace = <<>> THEN "none" ELSE trace[Len(trace)]

\* after a decline at the read confirmation the session is back on the
\* table with no store call issued for the plan and no discovery set
DeclinedReadIsIdle ==
    LastEvent = "declineRead" =>
        /\ wf = "Idle"
        /\ IssuedCalls = 0
        /\ statements = <<>> /\ batchPc = "idle"
        /\ pendingPlanItems = <<>>
        /\ discovered = <<>>

\* leaving the read confirmation for the table changes neither the item
\* list nor the discovery set and issues no store call
DeclineReadChangesNothing ==
    (wf = "ReadConfirmPending" /\ wf' = "Idle") =>
        /\ trace' = Append(trace, "declineRead")
        /\ mItems' = mItems
        /\ pendingPlanItems' = pendingPlanItems
        /\ IssuedCalls' = IssuedCalls
        /\ UNCHANGED <<llmResult, batchVars>>

\* C20: when the operator declines at the read confirmation of a plan the
\* session returns to Idle, no store call is made for the plan (no read, no
\* scan, no write) and the item list and the discovery set are unchanged.
C20_DeclineReadHasNoEffect ==
    []DeclinedReadIsIdle /\ [][DeclineReadChangesNothing]_vars

\* a scan_then_write plan was declined at the read confirmation with an
\* item on display: the item is still there and no call was issued
C20_Witness ==
    /\ trace = <<"declineRead">>
    /\ wf = "Idle"
    /\ llmResult.Mode = "plan"
    /\ llmResult.Plan[1].Operation = "scan_then_write"
    /\ mItems # <<>>
    /\ IssuedCalls = 0

\* after a decline at the write confirmation the session is back on the
\* table, the discovery set is empty and nothing was handed to the store
DeclinedWriteIsIdle ==
    LastEvent = "declineWrite" =>
        /\ wf = "Idle"
        /\ pendingPlanItems = <<>>
        /\ statements = <<>> /\ batchPc = "idle" /\ submitted = <<>>

\* a decline at the write confirmation goes to the table, empties the
\* discovery set and starts no batch
DeclineWriteDiscards ==
    (wf = "WriteConfirmPending" /\ trace' = Append(trace, "declineWrite")) =>
        /\ wf' = "Idle"
        /\ pendingPlanItems' = <<>>
        /\ UNCHANGED <<batchVars, mItems>>

\* C21: when the operator declines at the write confirmation the session
\* returns to Idle, the discovery set is discarded (empty afterwards) and no
\* statement is submitted for any discovered item.
C21_DeclineWriteDiscards ==
    []DeclinedWriteIsIdle /\ [][DeclineWriteDiscards]_vars

\* a read found items, the write was declined: nothing pending, nothing
\* submitted
C21_Witness ==
    /\ trace = <<"confirmRead", "readCall", "readOk", "declineWrite">>
    /\ wf = "Idle"
    /\ Len(discovered) = MaxDiscovered
    /\ pendingPlanItems = <<>>
    /\ submitted = <<>>

\* the session holds a plan with operation=select
SelectPlan ==
    /\ llmResult.Plan # Nil
    /\ llmResult.Plan[1].Operation = "select"

\* C22: with a plan of operation=select, whatever its write block, the
\* session never is in WriteConfirmPending or Writing, no statement is
\* generated or submitted and no discovery set is pending; once its read
\* has succeeded the session is in Idle with the items read on display.
C22_SelectNeverWrites ==
    SelectPlan =>
        /\ wf \notin {"WriteConfirmPending", "Writing"}
        /\ statements = <<>> /\ batchPc = "idle" /\ submitted = <<>>
        /\ pendingPlanItems = <<>>
        /\ LastEvent = "readOk" => wf = "Idle" /\ mItems = discovered

\* a select plan that has a write block was read: the item is shown, the
\* session is in Idle
C22_Witness ==
    /\ SelectPlan
    /\ llmResult.Plan[1].Write # Nil
    /\ LastEvent = "readOk"
    /\ wf = "Idle"
    /\ mItems # <<>> /\ mItems = discovered

\* C23: the discovery set is non-empty only in WriteConfirmPending, where
\* it is what the read of the scan_then_write plan just returned; in every
\* other state, so in Idle and in Error after a submission, a decline or a
\* failure, and while the write runs, it is empty.
C23_PendingOnlyBeforeWrite ==
    /\ pendingPlanItems # <<>> =>
          /\ wf = "WriteConfirmPending"
          /\ LastEvent = "readOk"
          /\ llmResult.Plan[1].Operation = "scan_then_write"
          /\ pendingPlanItems = discovered
    /\ wf \in {"Idle", "Error", "Writing"} => pendingPlanItems = <<>>

\* the write of a full discovery set was submitted and the session is back
\* in Idle: nothing is pending
C23_Witness ==
    /\ wf = "Idle"
    /\ LastEvent = "confirmWrite"
    /\ Len(discovered) = MaxDiscovered
    /\ submitted # <<>>
    /\ pendingPlanItems = <<>>

----------------------------------------------------------------------------
(* Properties of the table browser *)

\* the step is Update handling the key: the model and the awaited commands
\* become what UpdateKey returns
KeyStep(key) ==
    /\ run = "running"
    /\ lastEv'.kind = "key"
    /\ model' = UpdateKey(model, key).m
    /\ cmds' = Issue(cmds, UpdateKey(model, key).cmd)

AtMostOneOutstanding == Outstanding(cmds) <= 1

LoadingWhileOutstanding ==
    Outstanding(cmds) > 0 => model.view = "viewLoading"

LoadingKeyIsInert ==
    \A key \in Keys :
        model.view = "viewLoading" /\ KeyStep(key) =>
            /\ \A c \in RemoteCmds : cmds'[c] = cmds[c]
            /\ model'.items = model.items
            /\ model'.tableCursor = model.tableCursor
            /\ model'.itemCursor = model.itemCursor

\* C24: at most one remote operation is awaited at any time; while one is
\* awaited the view is the loading view; and a key pressed in the loading
\* view issues no remote command and changes neither the item list nor the
\* cursors.
C24_OneRemoteOperationInFlight ==
    [](AtMostOneOutstanding /\ LoadingWhileOutstanding)
    /\ [][LoadingKeyIsInert]_vars

\* an error that Update records is put in the error view
ErrorIsShown ==
    model'.err # NoErr /\ model'.err # model.err => model'.view = "viewError"

\* a key pressed in the error view clears the error and shows the table
\* list, and nothing else: no command is issued and no other field changes
ErrorKeyOnlyAcknowledges ==
    \A key \in Keys :
        model.view = "viewError" /\ KeyStep(key) =>
            /\ model' = [model EXCEPT !.view = "viewTableList",
                                      !.err = NoErr]
            /\ cmds' = cmds

\* C25: every error Update records puts the session in the error view, and
\* in the error view every key only acknowledges the error: it clears the
\* error and returns to the table list, issues no command and leaves the
\* items unchanged.
C25_ErrorViewOnlyAcknowledges ==
    [][ErrorIsShown /\ ErrorKeyOnlyAcknowledges]_vars

C25_Witness ==
    /\ lastEv.kind = "key"
    /\ lastEv.view = "viewError"
    /\ model.view = "viewTableList"
    /\ model.err = NoErr
    /\ model.items # <<>>

YesKeys == {"y", "Y", "enter"}

NoKeys == {"n", "N", "esc"}

\* the confirmation view a command is issued from
ConfirmationViewOf(cmd) ==
    IF cmd = "saveItemCmd" THEN "viewConfirmation"
    ELSE "viewDeleteConfirmation"

ConfirmationViews == {"viewConfirmation", "viewDeleteConfirmation"}

\* a put or a delete is issued only by y, Y or enter pressed in its
\* confirmation view
SentOnlyOnYes ==
    \A c \in {"saveItemCmd", "deleteItemCmd"} :
        cmds'[c] > cmds[c] =>
            /\ lastEv'.kind = "key"
            /\ model.view = ConfirmationViewOf(c)
            /\ \A key \in Keys : KeyStep(key) => key \in YesKeys

\* n, N or esc in a confirmation view returns to the item view and issues
\* nothing
NoReturnsToItems ==
    \A key \in NoKeys :
        model.view \in ConfirmationViews /\ KeyStep(key) =>
            /\ model' = [model EXCEPT !.view = "viewTableItems"]
            /\ cmds' = cmds

\* any other key in a confirmation view changes nothing
OtherKeyChangesNothing ==
    \A key \in Keys \ (YesKeys \cup NoKeys) :
        model.view \in ConfirmationViews /\ KeyStep(key) =>
            /\ model' = model
            /\ cmds' = cmds

\* C30: a put or a delete of the selected item is issued only when y, Y or
\* enter is pressed in the corresponding confirmation view; n, N or esc
\* returns to the item view without a remote call; any other key leaves
\* the confirmation view and the whole model unchanged.
C30_WriteOnlyOnConfirmation ==
    [][SentOnlyOnYes /\ NoReturnsToItems /\ OtherKeyChangesNothing]_vars

C30_Witness ==
    /\ lastEv.kind = "key"
    /\ lastEv.view = "viewDeleteConfirmation"
    /\ cmds["deleteItemCmd"] = 1
    /\ model.view = "viewLoading"

----------------------------------------------------------------------------
(* Properties of the statement confirmation *)

\* the statements of a mode=sql result are running, or have run
SqlExecuted ==
    \/ wf = "Executing"
    \/ \E i \in 1 .. Len(trace) : trace[i] \in {"executeOk", "executeFailed"}

InsertPlan(r) ==
    /\ r.Plan # Nil
    /\ r.Plan[1].Operation = "scan_then_write"
    /\ r.Plan[1].Write # Nil
    /\ r.Plan[1].Write[1].Action = "insert"

\* C27: InvokeBedrock accepts no scan_then_write plan whose write action is
\* insert, so that no statement is ever generated from an insert template.
C27_InsertPlanRejected ==
    Accepted => ~InsertPlan(msg[1].result)

----------------------------------------------------------------------------
(* Properties of the key-value codec *)

\* C28: a native value that was marshalled for the store and decoded again
\* is the value it was.
C28_DecodeOfEncodeIsIdentity ==
    (codecPc = "done" /\ native # NoVal) => decoded = native

\* the tags unmarshalAttributeValue has a case for
SupportedTags == {"S", "N", "BOOL", "NULL", "M", "L"}

\* unmarshalItem gives every item with the attribute of an unsupported tag
\* set to null and the other attribute decoded
LenientDecode ==
    \A i \in 1 .. Len(lenientItems) :
        LET x == respItems[i][2].v
            out == lenientItems[i]
        IN  /\ Len(out) = 2
            /\ out[1] = [k |-> "id",
                          v |-> Val("string", respItems[i][1].v.s, <<>>)]
            /\ out[2].k = "x"
            /\ x.t \notin SupportedTags => out[2].v = Val("nil", "", <<>>)

\* no item of the answer is missing from what the scan returns
NoItemDropped ==
    codecPc = "done" /\ respItems # <<>> =>
        decodedItems = [i \in 1 .. Len(respItems) |-> i]

\* C29: an item holding an attribute with an unsupported or unknown tag is
\* decoded with that attribute null and the other attributes as they are,
\* and no item of the answer is missing from the result of the scan.
C29_BadAttributeDoesNotHideItem ==
    LenientDecode /\ NoItemDropped

----------------------------------------------------------------------------
(* Properties of the statement filter *)

\* the statements of stmts that have text, as they are and in their order
RECURSIVE WithText(_)
WithText(stmts) ==
    IF stmts = <<>> THEN <<>>
    ELSE IF HasText(Head(stmts))
         THEN <<Head(stmts)>> \o WithText(Tail(stmts))
         ELSE WithText(Tail(stmts))

\* InvokeBedrock has answered a mode=sql result
SqlAnswered == msg # NoMsg /\ raw # Nil /\ raw[1].Mode = "sql"

\* C31: for a mode=sql result, InvokeBedrock rejects it when no statement
\* has text once trimmed, and a result it accepts has exactly the statements
\* that have text, each unmodified, in their original order.
C31_BlankStatementsDropped ==
    SqlAnswered =>
        /\ WithText(raw[1].Statements) = <<>> => msg[1].err # NoErr
        /\ msg[1].err = NoErr =>
              msg[1].result.Statements = WithText(raw[1].Statements)

\* two different statements are kept in their order, untrimmed, after a
\* blank one between them was dropped
C31_Witness ==
    /\ SqlAnswered /\ msg[1].err = NoErr
    /\ raw[1].Statements = << <<" ", "S">>, <<" ">>, <<"T">> >>
    /\ msg[1].result.Statements = << <<" ", "S">>, <<"T">> >>

----------------------------------------------------------------------------
(* Properties of a failing read *)

\* a call of Dynamo.Scan has failed during the plan's read
SubPageFailed == \E k \in 1..Len(trace) : trace[k] = "pageFailed"

\* ScanTable has returned an error with no item and no key
FailedScanIsEmpty ==
    scanErr # NoErr =>
        /\ scanPc \in {"returned", "idle"}
        /\ scanItems = <<>>
        /\ lastKey = NilKey

\* after a failed Dynamo.Scan the session holds no item of the read, is on
\* its way to Error or there, and is never at the write confirmation
FailedReadIsDiscarded ==
    SubPageFailed =>
        /\ scanErr # NoErr
        /\ pendingPlanItems = <<>>
        /\ discovered = <<>>
        /\ mItems = <<>>
        /\ wf \in {"Reading", "Error"}
        /\ wf = "Error" <=> LastEvent = "readFailed"
        /\ wf = "Error" => err = scanErr

\* C32: when a call of Dynamo.Scan fails during the plan's read, ScanTable
\* returns no item and no key, also after earlier pages of the same call were
\* answered; the session goes to Error with no discovery set and does not
\* reach the write confirmation.
C32_FailedReadKeepsNothing == FailedScanIsEmpty /\ FailedReadIsDiscarded

\* the third Dynamo.Scan of a read failed after two pages were answered, for
\* a plan with a write, and the session is in Error
C32_Witness ==
    /\ wf = "Error"
    /\ llmResult.Plan[1].Operation = "scan_then_write"
    /\ trace = <<"confirmRead", "readCall", "pageOk", "pageOk", "pageFailed",
                 "readFailed">>

----------------------------------------------------------------------------
(* Properties of one call of ScanTable *)

\* ScanTable has returned without an error
ScanReturned == scanPc = "returned" /\ scanErr = NoErr

\* the items returned reach the end of the table
Exhausted == KeyPos(startKey) + Len(scanItems) = tableSize

\* C33: a call of ScanTable returns at most 1000 items over its pages, and
\* the key it returns is nil exactly when the items it returned reach the
\* end of the table.
C33_CapAndTokenOnlyAtEnd ==
    ScanReturned =>
        /\ Len(scanItems) <= scanCap
        /\ lastKey = NilKey <=> Exhausted

----------------------------------------------------------------------------
(* Termination of the write step *)

\* BatchSqlQuery has returned to the session, which is back on the table
\* with every statement submitted, in chunks, and the outcome as its message
WriteSurfaced ==
    /\ wf = "Idle"
    /\ batchPc = "idle"
    /\ Flatten(submitted) = statements
    /\ Len(responded) = Len(statements)
    /\ err = batchErr
    /\ batchErr = BatchError(errorMsgs).err

\* a BatchExecuteStatement call failed as a whole and the session shows, or
\* has shown, the error
WriteCallFailed ==
    /\ batchErr = "batch execution failed"
    /\ batchPc = "idle"
    /\ wf \in {"Error", "Idle"}

\* C34: from the confirmed write step on, with every call returning, the
\* chunk loop of BatchSqlQuery ends for every statement list, the empty one
\* included, and the session comes back to Idle with every chunk submitted
\* and the batch outcome surfaced, unless a call failed as a whole, in which
\* case it shows that error.
C34_WriteStepTerminates ==
    (wf = "Writing") ~> (WriteSurfaced \/ WriteCallFailed)

\* the session is back on the table after three chunks
C34_Witness ==
    /\ WriteSurfaced
    /\ Len(statements) = MaxStatements
    /\ Len(submitted) = 3

----------------------------------------------------------------------------
(* Properties of the modified flags *)

\* the message of command c is taken in this step
Took(c) == cmds' = [cmds EXCEPT ![c] = @ - 1] /\ cmds[c] > 0

\* the editor's item is accepted in this step: it is under the cursor and
\* flagged, and no flag is lost
EditorAcceptSetsFlag ==
    \A c \in {"openEditor(edit)", "openEditor(new)"}, newItem \in Rows :
        ( /\ Took(c)
          /\ UpdateEditorFinished(model, NoErr, TRUE, newItem,
                                  c = "openEditor(new)").cmd # "panic"
          /\ model' = UpdateEditorFinished(model, NoErr, TRUE, newItem,
                                           c = "openEditor(new)").m )
        => /\ InRange(model'.itemCursor, model'.items)
           /\ model'.items[model'.itemCursor + 1] = newItem
           /\ model'.itemCursor \in model'.modifiedItems
           /\ model.modifiedItems \subseteq model'.modifiedItems

\* a save that fails leaves every flag as it is
FailedSaveKeepsFlags ==
    (Took("saveItemCmd") /\ model'.view = "viewError")
        => model'.modifiedItems = model.modifiedItems

\* a load of items clears every flag
LoadClearsFlags ==
    (Took("scanTable") /\ model'.view = "viewTableItems")
        => model'.modifiedItems = {}

\* a successful delete removes the item under the cursor
DeleteSucceeds ==
    /\ Took("deleteItemCmd")
    /\ run' = "running"
    /\ model'.view = "viewTableItems"
    /\ Len(model.items) > 0

\* where the item at index i is after the item at index c was removed
Shifted(i, c) == IF i < c THEN i ELSE i - 1

\* apart from a load and a successful save, no item that stays in the
\* list loses its flag
FlagClearedOnlyBySave ==
    /\ DeleteSucceeds =>
          \A i \in model.modifiedItems \ {model.itemCursor} :
              InRange(i, model.items) =>
                  Shifted(i, model.itemCursor) \in model'.modifiedItems
    /\ ( /\ ~Took("deleteItemCmd") /\ ~Took("saveItemCmd")
         /\ ~Took("scanTable")
         /\ run' = "running" )
       => \A i \in model.modifiedItems :
              InRange(i, model'.items) => i \in model'.modifiedItems

\* C35: the modified flag of an item is set when the editor's item is
\* accepted, stays set when a save fails, is cleared for every item when
\* items are loaded, and is otherwise cleared only by the successful save:
\* in particular an item that stays in the list through another step keeps
\* its flag.
C35_FlagTracksDivergence ==
    [][/\ EditorAcceptSetsFlag
       /\ FailedSaveKeepsFlags
       /\ LoadClearsFlags
       /\ FlagClearedOnlyBySave]_vars

----------------------------------------------------------------------------
(* Properties of the key of a delete *)

\* the last key press confirmed a delete, whose command is on its way
DeleteIssued ==
    /\ lastEv.kind = "key"
    /\ lastEv.view = "viewDeleteConfirmation"
    /\ model.view = "viewLoading"
    /\ run = "running"

\* the key attributes of the table under the cursor
KeyAttrs ==
    IF model.tables[model.tableCursor + 1].hasSK THEN {"pk", "sk"} ELSE {"pk"}

\* C36: the key a single-item delete sends holds the table's partition-key
\* attribute and, for a table with a sort key, its sort-key attribute, with
\* the values of the item under the cursor, and no other attribute.
C36_DeleteKeyIsTheItemsKey ==
    DeleteIssued =>
        LET item == model.items[model.itemCursor + 1]
        IN  /\ DOMAIN lastEv.key = KeyAttrs \cap DOMAIN item
            /\ \A a \in DOMAIN lastEv.key : lastEv.key[a] = item[a]

\* a delete on a table without a sort key sent only the partition key of an
\* item that has two more attributes
C36_Witness ==
    /\ DeleteIssued
    /\ ~model.tables[model.tableCursor + 1].hasSK
    /\ model.items[model.itemCursor + 1] = [pk |-> 1, sk |-> 2, name |-> "n"]
    /\ lastEv.key = [pk |-> 1]

----------------------------------------------------------------------------
(* Properties of a successful delete *)

\* s without its element at index c (from 0)
Without(s, c) == SubSeq(s, 1, c) \o SubSeq(s, c + 2, Len(s))

\* the delete removed the item under the cursor and every other item has,
\* at its new index, the flag it had
DeleteKeepsOtherFlags ==
    LET c == model.itemCursor
    IN  /\ model'.items = Without(model.items, c)
        /\ \A i \in (0 .. Len(model.items) - 1) \ {c} :
              (i \in model.modifiedItems)
                  <=> (Shifted(i, c) \in model'.modifiedItems)

\* C37: a successful delete removes the item under the cursor, and every
\* remaining item has afterwards, at its shifted index, exactly the modified
\* flag it had before, also when the deleted item was the last of the list.
C37_DeleteShiftsFlags ==
    [][DeleteSucceeds => DeleteKeepsOtherFlags]_vars

----------------------------------------------------------------------------
(* Properties of a successful save *)

\* a successful save is taken in this step
SaveSucceeds ==
    /\ Took("saveItemCmd")
    /\ run' = "running"
    /\ model'.view = "viewTableItems"

\* the items of its apart from the one at index c (from 0) and from those
\* Drop holds for, each with its flag, in their order
OthersWithFlags(its, fl, c, Drop(_)) ==
    LET tagged == [k \in 1 .. Len(its) |->
                     [item |-> its[k], mod |-> (k - 1) \in fl, at |-> k - 1]]
        Stays(e) == e.at # c /\ ~Drop(e.item)
        stay == SelectSeq(tagged, Stays)
    IN  [k \in 1 .. Len(stay) |-> [item |-> stay[k].item, mod |-> stay[k].mod]]

\* what the save leaves: the saved item under the cursor and not flagged,
\* no other item with its key, and the others in their order with their
\* flags, as many of them before the saved item as before
SavedItemIsUnique ==
    LET c == model.itemCursor
        saved == model.items[c + 1]
        hasSK == model.tables[model.tableCursor + 1].hasSK
        SameKey(it) == it.pk = saved.pk /\ (hasSK => it.sk = saved.sk)
        Never(it) == FALSE
        c2 == model'.itemCursor
    IN  /\ InRange(c2, model'.items)
        /\ model'.items[c2 + 1] = saved
        /\ c2 \notin model'.modifiedItems
        /\ \A d \in (0 .. Len(model'.items) - 1) \ {c2} :
              ~SameKey(model'.items[d + 1])
        /\ OthersWithFlags(model'.items, model'.modifiedItems, c2, Never)
             = OthersWithFlags(model.items, model.modifiedItems, c, SameKey)
        /\ c2 = Len(OthersWithFlags(SubSeq(model.items, 1, c),
                                    model.modifiedItems, c, SameKey))
        /\ model'.modifiedItems \subseteq 0 .. Len(model'.items) - 1

\* C38: a successful save leaves no other item with the partition-key value
\* (and, for a table with a sort key, the sort-key value) of the saved item,
\* which is still under the cursor and is not flagged modified; the other
\* items keep their relative order and their modified flags.
C38_SaveLeavesOneItemPerKey ==
    [][SaveSucceeds => SavedItemIsUnique]_vars

\* of four items the one before the saved item had its key and was
\* dropped; the saved item moved up and the two others kept their order and
\* the flag one of them had
C38_Witness ==
    /\ lastEv = [kind |-> "msg", view |-> "viewLoading", key |-> <<>>, n |-> 4]
    /\ model.view = "viewTableItems"
    /\ model.tables[model.tableCursor + 1].hasSK
    /\ model.items = << [pk |-> 2, sk |-> 1, name |-> "n"],
                        [pk |-> 1, sk |-> 1, name |-> "n"],
                        [pk |-> 1, sk |-> 2, name |-> "n"] >>
    /\ model.itemCursor = 1
    /\ model.modifiedItems = {2}

----------------------------------------------------------------------------
(* Properties of the cursors *)

\* C39: in every reachable state the table cursor and the item cursor are
\* not negative, and each is a valid index into its list whenever the list
\* is not empty.
C39_CursorsInRange ==
    /\ model.tableCursor >= 0
    /\ model.itemCursor >= 0
    /\ model.tables # <<>> => InRange(model.tableCursor, model.tables)
    /\ model.items # <<>> => InRange(model.itemCursor, model.items)

----------------------------------------------------------------------------
(* SubstituteKeys against the simultaneous replacement *)

\* C40: a statement SubstituteKeys returns is the template with {{PK}} and
\* {{SK}} replaced at once: the text put in for {{PK}} is left as it is by
\* the replacement of {{SK}}, also when the partition-key string holds the
\* text {{SK}}.
C40_ReplacementIsSimultaneous ==
    (subPc = "done" /\ subOut.err = NoErr) =>
        subOut.stmt = Substituted(subTpl, FormatPartiQLValue(subPk).out,
                                  FormatPartiQLValue(subSk).out, subHasSK)

=============================================================================
